---- MODULE Spec2Model ----
(***************************************************************************)
(* A model of the catalog mutation and promotion engine of maas-images     *)
(* (meph2): the sync sinks that stage and condense product trees, the      *)
(* Diff Engine (get_diff), the Patch Engine (main_patch, patch_versions,   *)
(* copy_items) and the Orphan Collector (main_find_orphans,                *)
(* main_reap_orphans, write_orphan_file).                                  *)
(*                                                                         *)
(* A product tree is a map  product id -> [fields, versions], a version is *)
(* [fields, items] and an item is a field map.  A field value is a pair    *)
(* <<type, text>>: <<"str", "7">> is the JSON string "7" and <<"int", "7">>*)
(* the JSON number 7, so that int() and the string-only flattening of      *)
(* simplestreams are conversions the model can tell apart.                 *)
(***************************************************************************)
EXTENDS Integers, Sequences, FiniteSets, TLC

VARIABLES
    \* ---- sync sinks (BareMirrorWriter, CloudImg2Meph2Sync) and meph2-build ----
    tfile,             \* products of the persisted catalog streams/v1/<content_id>.json
    tfstate,           \* that file: "ok" | "missing" | "corrupt" (not JSON)
    tproducts,         \* BareMirrorWriter.tproducts (products of the in-memory tree)
    content_t,         \* CloudImg2Meph2Sync.content_t (products of the in-memory tree)
    inserted,          \* BareMirrorWriter.inserted[tcontent_id]: staged (pedigree, flat item)
    removed_versions,  \* BareMirrorWriter.removed_versions: staged version pedigrees
    precondense,       \* the tree that the last writer handed to products_condense
    spc,               \* position of the sync run: "idle" | "loaded" | "cloud", or
                       \* "raised" when load_products ended it with an exception
    writes,            \* the writer runs (insert_products, dump_stream_data) still to come
    \* ---- Patch Engine (main_patch): the two roots and one invocation ----
    tcat,              \* target root: stream -> products of streams/v1/<stream>.json
    tidx,              \* target root: index.json, stream -> product ids listed
    tdata,             \* target root: data files, path -> sha256 of the bytes on disk
    scat,              \* source root: stream -> products
    sdata,             \* source root: data files, path -> sha256 of the bytes on disk
    diff,              \* the diff document: entries in document order
    prun,              \* the invocation: [dry_run, source given, position, flags, outcome]
                       \* and the target root as it was when the invocation began
    plog,              \* the invocations that ended: <<dry_run, source given, outcome>>
    \* ---- Diff Engine (main_diff, get_diff) ----
    dres,              \* the last meph2-util diff: its options and how it ended
    \* ---- Orphan Collector (find-orphans, reap-orphans) over the target root ----
    ledger,            \* the orphan-data file: whether it exists, path -> timestamp
    clock,             \* the wall clock, in seconds
    olast,             \* the collector run that was the last operation, if one was
    \* ---- catalog maintenance (insert, patch, remove-version, import) ----
    tupdated,          \* target root: stream -> the 'updated' field of its catalog file
    \* ---- netinst: get_products_data and its MineNetbootMetaData threads ----
    nmined,            \* what mine_md finds at each place (work unit)
    in_queue,          \* the work units no thread has taken yet
    nthread,           \* thread -> the work unit it is mining, or NoUnit
    out_queue,         \* the results the threads have put, in the order they arrived
    nres,              \* what get_products_data returned or raised, once it has
    \* ---- netinst: get_file_item_data ----
    gf_args,           \* the call: [path, release]
    gf_ret,            \* what the call returned, once it has
    \* ---- util.copy_fh ----
    cp_args,           \* the call: [src, the bytes the source holds; cksums]
    cp_dir,            \* the destination directory: the final path, the temp files
    cp_ret,            \* how the call ended, once it has
    \* ---- meph2-util clean-md ----
    cm_args,           \* the mirror (content id -> products), --max and the filters
    cm_dry,            \* the --dry-run: the (content id, pedigree) pairs it reported
    cm_real            \* the real run: what it recorded and the catalogs it persisted

syncVars ==
    <<tfile, tfstate, tproducts, content_t, inserted, removed_versions, precondense,
      spc, writes>>

patchVars == <<tcat, tidx, tdata, scat, sdata, diff, prun, plog>>

diffVars == <<dres>>

orphanVars == <<ledger, clock, olast>>

maintVars == <<tupdated>>

\* the variables of the subsystems outside sync, patch, diff and collector
netVars == <<nmined, in_queue, nthread, out_queue, nres>>

fileVars == <<gf_args, gf_ret>>

copyVars == <<cp_args, cp_dir, cp_ret>>

cleanVars == <<cm_args, cm_dry, cm_real>>

laterVars == <<maintVars, netVars, fileVars, copyVars, cleanVars>>

vars == <<syncVars, patchVars, diffVars, orphanVars, laterVars>>

(***************************************************************************)
(* Field maps (python dicts of scalar fields)                              *)
(***************************************************************************)
EmptyMap == [k \in {} |-> <<"str", "">>]

Put(m, k, v) == [x \in (DOMAIN m) \cup {k} |-> IF x = k THEN v ELSE m[x]]

Drop(m, ks) == [x \in (DOMAIN m) \ ks |-> m[x]]

\* dict.update: b's entries win
Update(a, b) ==
    [k \in (DOMAIN a) \cup (DOMAIN b) |-> IF k \in DOMAIN b THEN b[k] ELSE a[k]]

Str(x) == <<"str", x>>

Num(x) == <<"int", x>>

IsString(v) == v[1] = "str"

\* simplestreams.util.stringitems: only the string-valued entries of a dict
stringitems(m) == [k \in {x \in DOMAIN m : IsString(m[x])} |-> m[k]]

(***************************************************************************)
(* The bounded universe of the sync model                                  *)
(***************************************************************************)
Products == {"p1", "p2"}

Versions == {"v1", "v2"}

Items == {"i1", "i2"}

\* the sticky list of BareMirrorWriter.insert_products
STICKY_BARE ==
    {"di_version", "kpackage", "sha256", "md5", "path", "ftype",
     "src_package", "src_version", "src_release"}

\* the sticky list of dump_stream_data and CloudImg2Meph2Sync.insert_products
STICKY_BUILD == {"di_version", "kpackage"}

\* item records as a source catalog or create_version can hold them
ItemShapes ==
    { [arch |-> Str("amd64"), kpackage |-> Str("linux"), size |-> Str("7")],
      [ftype |-> Str("squashfs"), size |-> Num("7")],
      [arch |-> Str("arm64")] }

\* the pedigrees a sync run may be handed
SyncPeds ==
    { <<"p1", "v1", "i1">>, <<"p1", "v1", "i2">>, <<"p1", "v2", "i1">>,
      <<"p2", "v1", "i1">> }

\* the writer runs of one behaviour
WriterRuns == {"first", "second"}

\* staged operations (inserted + removed_versions) of one sync run
MaxStaged == 2

(***************************************************************************)
(* Tree Mutator: simplestreams.util as the sinks call it                   *)
(***************************************************************************)
EmptyProducts == [p \in {} |-> [fields |-> EmptyMap, versions |-> EmptyMap]]

EmptyVersions == [v \in {} |-> [fields |-> EmptyMap, items |-> EmptyMap]]

EmptyItems == [i \in {} |-> EmptyMap]

\* main_patch before it has run, main_diff before it has run, no orphan
\* file, and no reap as the last operation
IdleRun ==
    [dry |-> FALSE, src |-> FALSE, pos |-> 0, cur |-> "none", wps |-> FALSE,
     regen |-> FALSE, wrote |-> {}, err |-> "none", fail |-> "none",
     status |-> "idle", before |-> [cat |-> EmptyMap, idx |-> EmptyMap,
                                    data |-> EmptyMap]]

NoDiff ==
    [status |-> "none", promote |-> FALSE, new_versions_only |-> FALSE,
     latest_only |-> FALSE]

NoLedger == [exists |-> FALSE, entries |-> EmptyMap]

NoReap ==
    [op |-> "other", older |-> <<>>, force |-> FALSE, dry |-> FALSE, now |-> 0,
     files |-> {}, known |-> EmptyMap, reaped |-> {}]

\* the state of a subsystem that a specification leaves alone
SyncQuiet ==
    /\ tfile = EmptyProducts
    /\ tfstate = "missing"
    /\ tproducts = EmptyProducts
    /\ content_t = EmptyProducts
    /\ inserted = <<>>
    /\ removed_versions = <<>>
    /\ precondense = EmptyProducts
    /\ spc = "idle"
    /\ writes = {}

PatchQuiet ==
    /\ tcat = EmptyMap
    /\ tidx = EmptyMap
    /\ tdata = EmptyMap
    /\ scat = EmptyMap
    /\ sdata = EmptyMap
    /\ diff = <<>>
    /\ prun = IdleRun
    /\ plog = <<>>

DiffQuiet == dres = NoDiff

OrphanQuiet ==
    /\ ledger = NoLedger
    /\ clock = 0
    /\ olast = NoReap

MaintQuiet == tupdated = EmptyMap

\* a thread with no work unit, and get_products_data before it has ended
NoUnit == [release |-> "", pocket |-> "", arch |-> ""]

NoResult == [status |-> "none", products |-> EmptyMap, pathmap |-> EmptyMap,
             error |-> NoUnit]

NetQuiet ==
    /\ nmined = EmptyMap
    /\ in_queue = <<>>
    /\ nthread = <<>>
    /\ out_queue = <<>>
    /\ nres = NoResult

\* a call that has not returned, and the None a call can return
NotReturned == [returned |-> FALSE, none |-> FALSE, data |-> EmptyMap]

ReturnedNone == [returned |-> TRUE, none |-> TRUE, data |-> EmptyMap]

FileQuiet ==
    /\ gf_args = [path |-> <<>>, release |-> <<>>]
    /\ gf_ret = NotReturned

\* a path with no file, and a copy_fh that was not called
NoFile == [exists |-> FALSE, bytes |-> <<>>]

NotCalled == [status |-> "none", opened |-> FALSE, renamed |-> FALSE, read |-> <<>>]

CopyQuiet ==
    /\ cp_args = [src |-> <<>>, cksums |-> [kind |-> "none", sum |-> 0]]
    /\ cp_dir = [final |-> NoFile, temps |-> {}]
    /\ cp_ret = NotCalled

\* a clean-md that was not run
NotRun == [ran |-> FALSE, removed |-> {}, cat |-> EmptyMap]

CleanQuiet ==
    /\ cm_args = [cat |-> EmptyMap, max_items |-> 0, filters |-> {}]
    /\ cm_dry = NotRun
    /\ cm_real = NotRun

LaterQuiet == MaintQuiet /\ NetQuiet /\ FileQuiet /\ CopyQuiet /\ CleanQuiet

Pedigrees(tree) ==
    UNION { UNION { { <<p, v, i>> : i \in DOMAIN tree[p].versions[v].items } :
                    v \in DOMAIN tree[p].versions } :
            p \in DOMAIN tree }

\* products_exdata(tree, pedigree, include_top=False, insert_fieldnames=False)
products_exdata(tree, ped) ==
    LET prod == IF ped[1] \in DOMAIN tree
                THEN tree[ped[1]]
                ELSE [fields |-> EmptyMap, versions |-> EmptyVersions]
        ver  == IF ped[2] \in DOMAIN prod.versions
                THEN prod.versions[ped[2]]
                ELSE [fields |-> EmptyMap, items |-> EmptyItems]
        item == IF ped[3] \in DOMAIN ver.items THEN ver.items[ped[3]] ELSE EmptyMap
    IN  Update(Update(stringitems(prod.fields), stringitems(ver.fields)),
               stringitems(item))

\* products_set(tree, data, pedigree): intermediate nodes are created as needed
products_set(tree, data, ped) ==
    LET prod == IF ped[1] \in DOMAIN tree
                THEN tree[ped[1]]
                ELSE [fields |-> EmptyMap, versions |-> EmptyVersions]
        ver  == IF ped[2] \in DOMAIN prod.versions
                THEN prod.versions[ped[2]]
                ELSE [fields |-> EmptyMap, items |-> EmptyItems]
        nver == [ver EXCEPT !.items = Put(ver.items, ped[3], data)]
        nprod == [prod EXCEPT !.versions = Put(prod.versions, ped[2], nver)]
    IN  Put(tree, ped[1], nprod)

\* products_del(tree, (product, version)): removes the version if it is there
products_del(tree, ped) ==
    IF ped[1] \in DOMAIN tree /\ ped[2] \in DOMAIN tree[ped[1]].versions
    THEN [tree EXCEPT ![ped[1]].versions = Drop(@, {ped[2]})]
    ELSE tree

\* products_prune(tree): empty items, then versions without items, then
\* products without versions are removed
products_prune(tree) ==
    LET pitems(ver) ==
            [ver EXCEPT !.items =
                [i \in {x \in DOMAIN ver.items : DOMAIN ver.items[x] # {}}
                    |-> ver.items[i]]]
        pvers(prod) ==
            LET vs == [v \in DOMAIN prod.versions |-> pitems(prod.versions[v])]
            IN  [prod EXCEPT !.versions =
                    [v \in {x \in DOMAIN vs : DOMAIN vs[x].items # {}} |-> vs[v]]]
        ps == [p \in DOMAIN tree |-> pvers(tree[p])]
    IN  [p \in {x \in DOMAIN ps : DOMAIN ps[x].versions # {}} |-> ps[p]]

\* the keys move_dups would move if it had no sticky list
move_dups_keys_unsticky(src, target, sticky) ==
    LET allkeys == UNION {DOMAIN src[e] : e \in DOMAIN src}
        holders(k) == {e \in DOMAIN src : k \in DOMAIN src[e]}
    IN  { k \in allkeys :
            /\ \A e \in holders(k) : IsString(src[e][k])
            /\ \A e1, e2 \in holders(k) : src[e1][k] = src[e2][k]
            /\ \A e \in holders(k) : k \in DOMAIN target => target[k] = src[e][k] }

\* The keys simplestreams.util.move_dups moves from the entries of src up to
\* target: a key outside sticky whose value is a string, is the same in
\* every entry that HOLDS the key, and does not contradict target.  An
\* entry that lacks the key does not stop the move.
move_dups_keys(src, target, sticky) ==
    LET allkeys == UNION {DOMAIN src[e] : e \in DOMAIN src}
        candidates == allkeys \ sticky
        holders(k) == {e \in DOMAIN src : k \in DOMAIN src[e]}
    IN  { k \in candidates :
            /\ \A e \in holders(k) : IsString(src[e][k])
            /\ \A e1, e2 \in holders(k) : src[e1][k] = src[e2][k]
            /\ \A e \in holders(k) : k \in DOMAIN target => target[k] = src[e][k] }

\* move_dups(src, target, sticky): the moved keys leave every entry and
\* update target
move_dups(src, target, sticky) ==
    LET ks == move_dups_keys(src, target, sticky)
        val(k) == LET e == CHOOSE x \in DOMAIN src : k \in DOMAIN src[x]
                  IN  src[e][k]
    IN  [ src    |-> [e \in DOMAIN src |-> Drop(src[e], ks)],
          target |-> Update(target, [k \in ks |-> val(k)]) ]

\* products_condense(ptree, sticky): items -> version for every version,
\* then versions -> product for every product (top='versions')
products_condense(tree, sticky) ==
    LET vpass(ver) ==
            LET r == move_dups(ver.items, ver.fields, sticky)
            IN  [fields |-> r.target, items |-> r.src]
        t1 == [p \in DOMAIN tree |->
                 [tree[p] EXCEPT !.versions =
                     [v \in DOMAIN tree[p].versions |-> vpass(tree[p].versions[v])]]]
        ppass(prod) ==
            LET entries == [v \in DOMAIN prod.versions |-> prod.versions[v].fields]
                r == move_dups(entries, prod.fields, sticky)
            IN  [fields   |-> r.target,
                 versions |-> [v \in DOMAIN prod.versions |->
                                 [prod.versions[v] EXCEPT !.fields = r.src[v]]]]
    IN  [p \in DOMAIN t1 |-> ppass(t1[p])]

(***************************************************************************)
(* BareMirrorWriter                                                        *)
(***************************************************************************)
\* known_ints: flatitem['size'] = int(flatitem['size'])
known_ints(flat) ==
    IF "size" \in DOMAIN flat THEN [flat EXCEPT !["size"] = Num(flat["size"][2])]
    ELSE flat

RECURSIVE SetAll(_, _)
\* the loop of insert_products over srcitems + inserted
SetAll(tree, staged) ==
    IF staged = <<>> THEN tree
    ELSE SetAll(products_set(tree, known_ints(staged[1][2]), staged[1][1]),
                Tail(staged))

RECURSIVE DelAll(_, _)
\* the loop of insert_products over removed_versions
DelAll(tree, peds) ==
    IF peds = <<>> THEN tree
    ELSE DelAll(products_del(tree, peds[1]), Tail(peds))

RECURSIVE SeqOfSet(_)
SeqOfSet(S) ==
    IF S = {} THEN <<>>
    ELSE LET x == CHOOSE y \in S : TRUE IN <<x>> \o SeqOfSet(S \ {x})

\* get_items over walk_products: the flattened items of the touched products
srcitems(tree, ptouched) ==
    SeqOfSet({ <<ped, products_exdata(tree, ped)>> :
                 ped \in {q \in Pedigrees(tree) : q[1] \in ptouched} })

\* the tree insert_products hands to products_condense
InsertProductsTree(tree, ins, removed) ==
    LET ptouched == {ins[n][1][1] : n \in 1..Len(ins)}
        emptied  == [p \in DOMAIN tree \cup ptouched |->
                        IF p \in ptouched
                        THEN [fields |-> EmptyMap, versions |-> EmptyVersions]
                        ELSE tree[p]]
        filled   == SetAll(emptied, srcitems(tree, ptouched) \o ins)
    IN  DelAll(filled, removed)

\* BareMirrorWriter.load_products: the mirror writer of simplestreams returns
\* nothing for a catalog that is not there, and empty_iid_products takes its
\* place; for a catalog that is not JSON the library either does the same
\* or lets the decode error through, depending on its version
LoadProducts ==
    /\ spc \in {"idle", "raised"}
    /\ writes # {}
    /\ \/ /\ tfstate \in {"ok", "missing"}
          /\ spc' = "loaded"
          /\ tproducts' = tfile
       \/ /\ tfstate = "corrupt"
          /\ \/ spc' = "loaded" /\ tproducts' = EmptyProducts
             \/ spc' = "raised" /\ tproducts' = tproducts
    /\ inserted' = <<>>
    /\ removed_versions' = <<>>
    /\ UNCHANGED <<tfile, tfstate, content_t, precondense, writes>>

\* BareMirrorWriter.insert_item
InsertItem(ped, raw) ==
    /\ spc = "loaded"
    /\ Len(inserted) + Len(removed_versions) < MaxStaged
    /\ inserted' = Append(inserted, <<ped, stringitems(raw)>>)
    /\ UNCHANGED <<tfile, tfstate, tproducts, content_t, removed_versions,
                   precondense, spc, writes>>

\* BareMirrorWriter.remove_version (the version passed the filters)
RemoveVersion(ped) ==
    /\ spc = "loaded"
    /\ Len(inserted) + Len(removed_versions) < MaxStaged
    /\ removed_versions' = Append(removed_versions, ped)
    /\ UNCHANGED <<tfile, tfstate, tproducts, content_t, inserted, precondense, spc,
                   writes>>

\* BareMirrorWriter.insert_products
InsertProducts ==
    /\ spc = "loaded"
    /\ spc' = "idle"
    /\ writes' = writes \ {CHOOSE w \in writes : TRUE}
    /\ LET pre == InsertProductsTree(tproducts, inserted, removed_versions)
       IN  /\ precondense' = pre
           /\ tproducts' = products_condense(pre, STICKY_BARE)
           /\ tfile' = products_condense(pre, STICKY_BARE)
    /\ tfstate' = "ok"
    /\ UNCHANGED <<content_t, inserted, removed_versions>>

(***************************************************************************)
(* meph2-build                                                             *)
(***************************************************************************)
\* the items create_version returns for one product
CvItems == [Items -> ItemShapes] \cup {[i \in {"i1"} |-> s] : s \in ItemShapes}

\* dump_stream_data(out_d, cvdata, content_id, version_name)
DumpStreamData(prodname, items, version_name) ==
    /\ spc \in {"idle", "raised"}
    /\ writes # {}
    /\ writes' = writes \ {CHOOSE w \in writes : TRUE}
    /\ LET staged == SeqOfSet({<<<<prodname, version_name, i>>, items[i]>> :
                                  i \in DOMAIN items})
           RECURSIVE Sets(_, _)
           Sets(tree, s) ==
               IF s = <<>> THEN tree
               ELSE Sets(products_set(tree, s[1][2], s[1][1]), Tail(s))
           pre == products_prune(Sets(EmptyProducts, staged))
       IN  /\ precondense' = pre
           /\ tfile' = products_condense(pre, STICKY_BUILD)
    /\ tfstate' = "ok"
    /\ spc' = "idle"
    /\ UNCHANGED <<tproducts, content_t, inserted, removed_versions>>

(***************************************************************************)
(* CloudImg2Meph2Sync                                                      *)
(***************************************************************************)
\* CloudImg2Meph2Sync.load_products: content_t is the catalog of the target,
\* read with no handler around UrlContentSource and sutil.load_content, or
\* an empty catalog when the target is FORCE_URL
CloudLoadProducts(force) ==
    /\ spc \in {"idle", "raised"}
    /\ writes # {}
    /\ IF force THEN spc' = "cloud" /\ content_t' = EmptyProducts
       ELSE IF tfstate = "ok" THEN spc' = "cloud" /\ content_t' = tfile
       ELSE spc' = "raised" /\ content_t' = content_t
    /\ UNCHANGED <<tfile, tfstate, tproducts, inserted, removed_versions, precondense,
                   writes>>

RECURSIVE cloud_set_items(_, _, _, _, _)
\* the loop of insert_item over the items create_version returned for a
\* product: sutil.products_set(self.content_t, items[i], (prodname, vername, i))
cloud_set_items(tree, prodname, vername, items, order) ==
    IF order = <<>> THEN tree
    ELSE cloud_set_items(
             products_set(tree, items[Head(order)], <<prodname, vername, Head(order)>>),
             prodname, vername, items, Tail(order))

\* the products and versions a run of CloudImg2Meph2Sync builds
CloudProducts == {"p2"}

CloudVersions == {"v1"}

\* CloudImg2Meph2Sync.insert_item: items are the items of cvret that are kept
CloudInsertItem(prodname, items, vername) ==
    /\ spc = "cloud"
    /\ content_t' = cloud_set_items(content_t, prodname, vername, items,
                                    SeqOfSet(DOMAIN items))
    /\ UNCHANGED <<tfile, tfstate, tproducts, inserted, removed_versions,
                   precondense, spc, writes>>

\* CloudImg2Meph2Sync.insert_products: a copy of content_t is pruned,
\* condensed and written
CloudInsertProducts ==
    /\ spc = "cloud"
    /\ spc' = "idle"
    /\ writes' = writes \ {CHOOSE w \in writes : TRUE}
    /\ precondense' = products_prune(content_t)
    /\ tfile' = products_condense(products_prune(content_t), STICKY_BUILD)
    /\ tfstate' = "ok"
    /\ UNCHANGED <<tproducts, content_t, inserted, removed_versions>>

\* the catalog under the target mirror before the first run, when it is
\* there and is JSON: an empty one, or one whose version-level 'arch' is
\* overridden by its item
TargetFiles ==
    { EmptyProducts,
      [p \in {"p2"} |->
          [fields   |-> EmptyMap,
           versions |-> [v \in {"v1"} |->
                           [fields |-> [arch |-> Str("amd64")],
                            items  |-> [i \in {"i1"} |->
                                          [arch |-> Str("arm64"),
                                           ftype |-> Str("squashfs")]]]]]] }

SyncInit ==
    /\ tfstate \in {"ok", "missing", "corrupt"}
    /\ tfile \in (IF tfstate = "ok" THEN TargetFiles ELSE {EmptyProducts})
    /\ tproducts = EmptyProducts
    /\ content_t = EmptyProducts
    /\ inserted = <<>>
    /\ removed_versions = <<>>
    /\ precondense = EmptyProducts
    /\ spc = "idle"
    /\ writes = WriterRuns
    /\ PatchQuiet /\ DiffQuiet /\ OrphanQuiet /\ LaterQuiet

SyncNext ==
    \/ LoadProducts /\ UNCHANGED <<patchVars, diffVars, orphanVars, laterVars>>
    \/ \E ped \in SyncPeds, raw \in ItemShapes :
          InsertItem(ped, raw) /\ UNCHANGED <<patchVars, diffVars, orphanVars, laterVars>>
    \/ \E ped \in {<<q[1], q[2]>> : q \in SyncPeds} :
          RemoveVersion(ped) /\ UNCHANGED <<patchVars, diffVars, orphanVars, laterVars>>
    \/ InsertProducts /\ UNCHANGED <<patchVars, diffVars, orphanVars, laterVars>>
    \/ \E p \in Products, items \in CvItems, v \in Versions :
          DumpStreamData(p, items, v)
              /\ UNCHANGED <<patchVars, diffVars, orphanVars, laterVars>>
    \/ \E force \in BOOLEAN :
          CloudLoadProducts(force)
              /\ UNCHANGED <<patchVars, diffVars, orphanVars, laterVars>>
    \/ \E p \in CloudProducts, items \in CvItems, v \in CloudVersions :
          CloudInsertItem(p, items, v)
              /\ UNCHANGED <<patchVars, diffVars, orphanVars, laterVars>>
    \/ CloudInsertProducts /\ UNCHANGED <<patchVars, diffVars, orphanVars, laterVars>>

SpecSync == SyncInit /\ [][SyncNext]_vars

(***************************************************************************)
(* Patch Engine: main_patch, patch_versions, copy_items                    *)
(***************************************************************************)
\* the label tokens of the two roots (get_stream_label)
SRC_LABEL == "candidate"

TGT_LABEL == "release"

\* item names, product names without their label token and stream names
\* in the order sort_keys gives
KeyOrder == <<"i1", "i2", "p1", "p2", "s1", "s2">>

PidOrder ==
    << <<"candidate", "p1">>, <<"candidate", "p2">>,
       <<"release", "p1">>, <<"release", "p2">> >>

\* version ids are strings of digits and dots; a string is the sequence of
\* its character codes and is compared as python compares strings
V1 == <<1>>

V2 == <<2>>

\* "10", between "1" and "2" as strings compare
V10 == <<1, 0>>

RECURSIVE LexLess(_, _)
LexLess(a, b) ==
    IF a = <<>> THEN b # <<>>
    ELSE IF b = <<>> THEN FALSE
    ELSE IF Head(a) # Head(b) THEN Head(a) < Head(b)
    ELSE LexLess(Tail(a), Tail(b))

RECURSIVE SortedVersions(_)
\* the keys of a versions dict as a file written with sort_keys lists them
SortedVersions(S) ==
    IF S = {} THEN <<>>
    ELSE LET m == CHOOSE x \in S : \A y \in S \ {x} : LexLess(x, y)
         IN  <<m>> \o SortedVersions(S \ {m})

InOrder(order, S) == SelectSeq(order, LAMBDA x : x \in S)

\* str.replace(old, new) on the label token of a product id
replace_label(pid, old, new) ==
    [n \in DOMAIN pid |-> IF pid[n] = old THEN new ELSE pid[n]]

\* get_product_name_without_label
get_product_name_without_label(pid, label) == pid[2]

\* re.compile(r"^%s$" % key).search(name): the key is a regular expression,
\* "p." matches every name of two characters that starts with p
Matches(key, name) == key = name \/ key = "p."

\* the sha256 each catalog declares for a path
Declared == [f1 |-> "h1", f2 |-> "h2"]

ItemRec(path) == [path |-> Str(path), sha256 |-> Str(Declared[path])]

\* a version's payload: v2 shares the file of v1 and adds one of its own
VersionPayload(vid) ==
    IF vid = V1
    THEN [fields |-> EmptyMap, items |-> [i \in {"i1"} |-> ItemRec("f1")]]
    ELSE [fields |-> EmptyMap,
          items  |-> [i \in {"i1", "i2"} |->
                        IF i = "i1" THEN ItemRec("f1") ELSE ItemRec("f2")]]

ProductOf(label, vids) ==
    [fields   |-> [label |-> Str(label), os |-> Str("ubuntu")],
     versions |-> [v \in vids |-> VersionPayload(v)]]

\* util.load_content(path): the products of the catalog file of a stream
\* under a root, as the file lists them
load_content(root, stream) == root[stream]

\* copy_items, the body of the loop for one item.  st is the state of the
\* patch of one product entry: [content, prod, data, err, fail, write, regen]
copy_item(item, st) ==
    LET path == item.path[2]
    IN  IF path \in DOMAIN st.data THEN st
        ELSE IF path \notin DOMAIN sdata
        THEN [st EXCEPT !.err = "fetch", !.fail = path]
        ELSE IF sdata[path] = item.sha256[2]
        THEN [st EXCEPT !.data = Put(@, path, sdata[path])]
        ELSE [st EXCEPT !.data = Put(@, path, sdata[path]),
                        !.err = "hash", !.fail = path]

RECURSIVE copy_items_loop(_, _, _)
copy_items_loop(items, order, st) ==
    IF order = <<>> \/ st.err # "none" THEN st
    ELSE copy_items_loop(items, Tail(order), copy_item(items[Head(order)], st))

\* copy_items(version_data, src_path, target_path)
copy_items(version_data, st) ==
    copy_items_loop(version_data.items,
                    InOrder(KeyOrder, DOMAIN version_data.items), st)

\* patch_versions, "Adding version": the version of the source is put into
\* target_data and, unless this is a dry run, its items are copied
add_version(version, vdata, dry, st) ==
    LET added == [st EXCEPT !.prod.versions = Put(@, version, vdata),
                            !.write = TRUE]
    IN  IF dry THEN added ELSE copy_items(vdata, added)

\* the loop body that deletes a version the target holds whatever its labels
patch_version_untagged(v, dry, hasSrc, stream, tpid, st) ==
    IF v[1] \in DOMAIN st.prod.versions
    THEN [st EXCEPT !.prod.versions = Drop(@, {v[1]}), !.write = TRUE]
    ELSE st

\* patch_versions, the body of the loop for one <<version, labels>> pair
patch_version(v, dry, hasSrc, stream, tpid, st) ==
    LET version == v[1]
        labels  == v[2]
        src_product == replace_label(tpid, TGT_LABEL, SRC_LABEL)
    IN  IF version \in DOMAIN st.prod.versions
        THEN IF TGT_LABEL \in labels THEN st
             ELSE [st EXCEPT !.prod.versions = Drop(@, {version}),
                             !.write = TRUE]
        ELSE IF TGT_LABEL \notin labels THEN st
        ELSE IF ~hasSrc THEN [st EXCEPT !.err = "nosource"]
        ELSE IF \/ src_product \notin DOMAIN load_content(scat, stream)
                \/ version \notin DOMAIN load_content(scat, stream)[src_product].versions
        THEN [st EXCEPT !.err = "keyerror", !.write = TRUE]
        ELSE add_version(
                 version,
                 load_content(scat, stream)[src_product].versions[version],
                 dry, st)

RECURSIVE patch_versions_loop(_, _, _, _, _, _)
patch_versions_loop(value, dry, hasSrc, stream, tpid, st) ==
    IF value = <<>> \/ st.err # "none" THEN st
    ELSE patch_versions_loop(Tail(value), dry, hasSrc, stream, tpid,
             patch_version(Head(value), dry, hasSrc, stream, tpid, st))

\* patch_versions without the test of args.dry_run before copy_items
patch_versions_copying(value, dry, hasSrc, stream, tpid, st) ==
    patch_versions_loop(value, FALSE, hasSrc, stream, tpid, st)

\* patch_versions: st.write is the write_product_stream it returns
patch_versions(value, dry, hasSrc, stream, tpid, st) ==
    patch_versions_loop(value, dry, hasSrc, stream, tpid, st)

\* None, as dict.get gives it and yaml writes null
None == <<"null", "">>

\* dict.get(key) on the scalar keys of a product
field_of(data, key) == IF key \in DOMAIN data.fields THEN data.fields[key] ELSE None

\* the scalar keys of a diff entry that main_patch overwrites in target_data:
\* target_label in value and target_data.get(key) != value[target_label]
changed_fields(e, prod) ==
    { k \in DOMAIN e.fields :
        /\ TGT_LABEL \in DOMAIN e.fields[k]
        /\ field_of(prod, k) # e.fields[k][TGT_LABEL] }

\* main_patch, "Updating key": target_data[key] = value[target_label]
update_fields(e, st) ==
    LET ch == changed_fields(e, st.prod)
    IN  [st EXCEPT !.prod.fields = Update(@, [k \in ch |-> e.fields[k][TGT_LABEL]]),
                   !.write = ch # {}]

\* target_data is the entry of target_content: what was patched in it is in
\* the content, and both flags are raised when anything was
store_product(tpid, write, regen, pv) ==
    [pv EXCEPT !.content = [@ EXCEPT ![tpid] = pv.prod],
               !.write = write \/ pv.write,
               !.regen = regen \/ pv.write]

\* main_patch, the body of the loop over the target products for one product
\* that matches the key of the diff entry e
patch_target(tpid, e, dry, hasSrc, stream, st) ==
    IF e.haslabels /\ TGT_LABEL \notin e.labels
    THEN [st EXCEPT !.content = Drop(@, {tpid}), !.write = TRUE, !.regen = TRUE]
    ELSE store_product(tpid, st.write, st.regen,
             patch_versions(e.versions, dry, hasSrc, stream, tpid,
                 update_fields(e, [st EXCEPT !.prod = st.content[tpid],
                                             !.write = FALSE])))

RECURSIVE patch_targets(_, _, _, _, _, _)
patch_targets(pids, e, dry, hasSrc, stream, st) ==
    IF pids = <<>> \/ st.err # "none" THEN st
    ELSE patch_targets(Tail(pids), e, dry, hasSrc, stream,
             patch_target(Head(pids), e, dry, hasSrc, stream, st))

RECURSIVE copy_versions(_, _, _)
\* for version_data in src_data['versions'].values(): copy_items(...)
copy_versions(versions, order, st) ==
    IF order = <<>> \/ st.err # "none" THEN st
    ELSE copy_versions(versions, Tail(order), copy_items(versions[Head(order)], st))

\* main_patch, "Promoting": the source product enters the target content
\* under the target label and, unless this is a dry run, its items are copied
promote_product(spid, e, dry, stream, st) ==
    IF /\ Matches(e.key, get_product_name_without_label(spid, SRC_LABEL))
       /\ e.haslabels /\ TGT_LABEL \in e.labels
    THEN LET src_data == load_content(scat, stream)[spid]
             placed == [st EXCEPT
                          !.content = Put(@, replace_label(spid, SRC_LABEL, TGT_LABEL),
                                          [src_data EXCEPT !.fields =
                                              Put(@, "label", Str(TGT_LABEL))]),
                          !.write = TRUE]
         IN  IF dry THEN placed
             ELSE copy_versions(src_data.versions,
                                SortedVersions(DOMAIN src_data.versions), placed)
    ELSE st

RECURSIVE promote_products(_, _, _, _, _)
promote_products(spids, e, dry, stream, st) ==
    IF spids = <<>> \/ st.err # "none" THEN st
    ELSE promote_products(Tail(spids), e, dry, stream,
             promote_product(Head(spids), e, dry, stream, st))

\* main_patch, one product entry e of the diff against the loaded content:
\* the matching products of the target are patched; when there is none, the
\* matching products of the source are promoted
patch_product(e, dry, hasSrc, st) ==
    LET matching == InOrder(PidOrder,
                      { q \in DOMAIN st.content :
                          Matches(e.key, get_product_name_without_label(q, TGT_LABEL)) })
    IN  IF matching # <<>>
        THEN patch_targets(matching, e, dry, hasSrc, e.stream, st)
        ELSE IF ~hasSrc THEN [st EXCEPT !.err = "nosource"]
        ELSE promote_products(InOrder(PidOrder, DOMAIN load_content(scat, e.stream)),
                              e, dry, e.stream, st)

\* write_product_stream is reset when the loop enters another stream
enter_stream(e, run) ==
    [run EXCEPT !.cur = e.stream,
                !.wps = IF run.cur = e.stream THEN run.wps ELSE FALSE]

abort_run(run, why, path) ==
    [run EXCEPT !.err = why, !.fail = path, !.status = "aborted"]

\* main_patch, the end of the body for one product entry: an assertion ended
\* the run, or the catalog file is rewritten when write_product_stream is
\* set and this is no dry run.  r is the state patch_product returned.
commit_product(e, run, r) ==
    IF r.err # "none"
    THEN [run  |-> abort_run(enter_stream(e, run), r.err, r.fail),
          disk |-> [cat |-> tcat, data |-> r.data]]
    ELSE LET writes_file == (enter_stream(e, run).wps \/ r.write) /\ ~run.dry
         IN  [run  |-> [enter_stream(e, run) EXCEPT
                           !.wps = @ \/ r.write,
                           !.regen = @ \/ r.regen,
                           !.wrote = IF writes_file THEN @ \cup {e.stream} ELSE @],
              disk |-> [cat  |-> IF writes_file
                                 THEN [tcat EXCEPT ![e.stream] = r.content]
                                 ELSE tcat,
                        data |-> r.data]]

\* main_patch, the body of the loops over the diff for one product entry e:
\* find_stream on the target index (and on the source when one is given),
\* then the patch of the freshly loaded content.  Returns [run, disk].
patch_entry(e, run) ==
    IF \/ e.stream \notin DOMAIN tidx
       \/ run.src /\ e.stream \notin DOMAIN scat
    THEN [run  |-> abort_run(enter_stream(e, run), "nostream", "none"),
          disk |-> [cat |-> tcat, data |-> tdata]]
    ELSE commit_product(e, run,
             patch_product(e, run.dry, run.src,
                 [content |-> load_content(tcat, e.stream),
                  prod |-> [fields |-> EmptyMap, versions |-> EmptyMap],
                  data |-> tdata, err |-> "none", fail |-> "none",
                  write |-> FALSE, regen |-> FALSE]))

\* util.create_index: every catalog file of streams/v1 with its product ids
create_index(cat) == [s \in DOMAIN cat |-> DOMAIN cat[s]]

\* the patch invocations of one behaviour
PatchRuns == {"first", "second"}

\* main_patch up to the loop over the diff: the arguments are read
StartPatch(dry, hasSrc) ==
    /\ prun.status # "running"
    /\ Len(plog) < Cardinality(PatchRuns)
    /\ LET started == [IdleRun EXCEPT !.dry = dry, !.src = hasSrc,
                                      !.before = [cat |-> tcat, idx |-> tidx,
                                                  data |-> tdata]]
       IN  IF diff = <<>>
           THEN /\ prun' = [started EXCEPT !.status = "done"]
                /\ plog' = Append(plog, <<dry, hasSrc, "none">>)
           ELSE /\ prun' = [started EXCEPT !.pos = 1, !.status = "running"]
                /\ plog' = plog
    /\ UNCHANGED <<tcat, tidx, tdata, scat, sdata, diff>>

\* what one product entry leaves behind; after the last entry the index is
\* regenerated when regenerate_index is set and this is no dry run
PatchEffect(r) ==
    /\ tcat' = r.disk.cat
    /\ tdata' = r.disk.data
    /\ IF r.run.status = "aborted"
       THEN /\ prun' = r.run
            /\ plog' = Append(plog, <<prun.dry, prun.src, r.run.err>>)
            /\ tidx' = tidx
       ELSE IF prun.pos = Len(diff)
       THEN /\ prun' = [r.run EXCEPT !.status = "done"]
            /\ plog' = Append(plog, <<prun.dry, prun.src, "none">>)
            /\ tidx' = IF r.run.regen /\ ~prun.dry
                       THEN create_index(r.disk.cat) ELSE tidx
       ELSE /\ prun' = [r.run EXCEPT !.pos = @ + 1]
            /\ plog' = plog
            /\ tidx' = tidx

\* main_patch: one product entry of the diff
PatchStep ==
    /\ prun.status = "running"
    /\ PatchEffect(patch_entry(diff[prun.pos], prun))
    /\ UNCHANGED <<scat, sdata, diff>>

\* a product entry of the diff document: labels is the 'labels' list when the
\* entry has one, versions the 'versions' map as <<version, labels>> pairs in
\* document order, fields the other keys, each label -> value
Entry(stream, key, haslabels, labels, versions, fields) ==
    [stream |-> stream, key |-> key, haslabels |-> haslabels, labels |-> labels,
     versions |-> versions, fields |-> fields]

DiffEntries ==
    { Entry("s1", "p1", TRUE, {TGT_LABEL, SRC_LABEL}, <<>>, EmptyMap),
      Entry("s1", "p2", TRUE, {TGT_LABEL, SRC_LABEL}, <<>>, EmptyMap),
      Entry("s1", "p1", FALSE, {},
            << <<V1, {TGT_LABEL, SRC_LABEL}>>, <<V2, {TGT_LABEL, SRC_LABEL}>> >>,
            EmptyMap),
      Entry("s1", "p1", FALSE, {}, << <<V1, {}>>, <<V10, {SRC_LABEL}>> >>, EmptyMap),
      Entry("s1", "p1", TRUE, {SRC_LABEL}, <<>>, EmptyMap),
      Entry("s1", "p.", TRUE, {TGT_LABEL, SRC_LABEL}, <<>>, EmptyMap),
      Entry("s2", "p1", TRUE, {TGT_LABEL, SRC_LABEL}, <<>>, EmptyMap),
      Entry("s1", "p1", FALSE, {}, <<>>,
            [os |-> [release |-> Str("debian")]]) }

\* the longest diff document
MaxDiffEntries == 2

\* a diff document is a mapping of mappings: a (stream, key) pair occurs once
\* and the entries of one stream are contiguous
DiffDocs ==
    { d \in UNION { [1..n -> DiffEntries] : n \in 0..MaxDiffEntries } :
        /\ \A a, b \in DOMAIN d :
              a # b => <<d[a].stream, d[a].key>> # <<d[b].stream, d[b].key>>
        /\ \A a, b, c \in DOMAIN d :
              (a < b /\ b < c /\ d[a].stream = d[c].stream)
                  => d[b].stream = d[a].stream }

\* the source root: a candidate mirror with two products in stream s1
SourceCatalog ==
    [s \in {"s1", "s2"} |->
        IF s = "s1"
        THEN [q \in {<<SRC_LABEL, "p1">>, <<SRC_LABEL, "p2">>} |->
                 IF q[2] = "p1" THEN ProductOf(SRC_LABEL, {V1, V2})
                 ELSE ProductOf(SRC_LABEL, {V1})]
        ELSE [q \in {<<SRC_LABEL, "p1">>} |-> ProductOf(SRC_LABEL, {V1})]]

\* the bytes under the source root: intact, damaged, or not there
SourceFiles ==
    { [f1 |-> "h1", f2 |-> "h2"], [f1 |-> "hx", f2 |-> "h2"],
      [f1 |-> "h1", f2 |-> "hx"], [f1 |-> "h1"] }

\* the products of the target's stream s1 before the patch
TargetCatalogs ==
    { [q \in {<<TGT_LABEL, n>> : n \in N} |-> ProductOf(TGT_LABEL, {V1})] :
        N \in SUBSET {"p1", "p2"} }

\* PathListerMirrorWriter.insert_item over the items of a products map: the
\* 'path' of every flattened item that has one
referenced(products) ==
    { products_exdata(products, ped)["path"][2] :
        ped \in { q \in Pedigrees(products) :
                    "path" \in DOMAIN products_exdata(products, q) } }

PatchInit ==
    /\ scat = SourceCatalog
    /\ sdata \in SourceFiles
    /\ \E s1 \in TargetCatalogs, withS2 \in BOOLEAN :
          /\ tcat = [s \in (IF withS2 THEN {"s1", "s2"} ELSE {"s1"}) |->
                        IF s = "s1" THEN s1 ELSE EmptyProducts]
          /\ tidx = create_index(tcat)
          /\ tdata = [f \in referenced(s1) |-> Declared[f]]
    /\ diff \in DiffDocs
    /\ prun = IdleRun
    /\ plog = <<>>
    /\ SyncQuiet /\ DiffQuiet /\ OrphanQuiet /\ LaterQuiet

PatchNext ==
    \/ \E dry \in BOOLEAN, hasSrc \in BOOLEAN :
          StartPatch(dry, hasSrc) /\ UNCHANGED <<syncVars, diffVars, orphanVars, laterVars>>
    \/ PatchStep /\ UNCHANGED <<syncVars, diffVars, orphanVars, laterVars>>

SpecPatch == PatchInit /\ [][PatchNext]_vars

(***************************************************************************)
(* Diff Engine: main_diff, get_diff                                        *)
(***************************************************************************)
OtherLabel(label) == IF label = SRC_LABEL THEN TGT_LABEL ELSE SRC_LABEL

\* the products of a stream as load_content returns them from a root
Side(label) == IF label = SRC_LABEL THEN scat ELSE tcat

\* diff[diff_stream_name] and diff[diff_stream_name][diff_product_name] as
\* get_diff creates them: {} on first use
EmptyStreamDiff == [not_merged |-> "none", products |-> EmptyMap]

EmptyEntry ==
    [haslabels |-> FALSE, labels |-> {}, versions |-> EmptyMap, fields |-> EmptyMap]

get_entry(doc, s, name) ==
    IF s \in DOMAIN doc /\ name \in DOMAIN doc[s].products
    THEN doc[s].products[name] ELSE EmptyEntry

put_entry(doc, s, name, entry) ==
    Put(doc, s, [(IF s \in DOMAIN doc THEN doc[s] ELSE EmptyStreamDiff)
                    EXCEPT !.products = Put(@, name, entry)])

\* the 'labels' list of a diff made without --promote
tags_unpromoted(label, promote) == {label}

\* the 'labels' list get_diff writes: [label, other_label] with --promote
tags(label, promote) == IF promote THEN {label, OtherLabel(label)} ELSE {label}

\* latest_only without the search for a newer version on the other side
newer_found_never(version, other_versions) == FALSE

\* get_diff: some version of the other side is greater as a string
newer_found(version, other_versions) ==
    \E other_version \in other_versions : LexLess(version, other_version)

\* get_diff: a version the other side lacks is recorded; with latest_only
\* the 'versions' of the entry are emptied first
record_version(entry, version, label, opts) ==
    [entry EXCEPT !.versions =
        Put(IF opts.latest_only THEN EmptyMap ELSE @, version,
            tags(label, opts.promote))]

\* the loop body without the assertion on a version both sides hold
diff_version_unchecked(version, label, data, other_data, opts, s, name, st) ==
    IF version \in DOMAIN other_data.versions THEN st
    ELSE IF opts.latest_only /\ newer_found(version, DOMAIN other_data.versions)
    THEN st
    ELSE [st EXCEPT !.doc = put_entry(@, s, name,
              record_version(get_entry(@, s, name), version, label, opts))]

\* get_diff, the body of the loop over the versions of a product.
\* st = [doc, err]
diff_version(version, label, data, other_data, opts, s, name, st) ==
    IF version \in DOMAIN other_data.versions
    THEN IF data.versions[version] = other_data.versions[version] THEN st
         ELSE [st EXCEPT !.err = "mismatch"]
    ELSE IF opts.latest_only /\ newer_found(version, DOMAIN other_data.versions)
    THEN st
    ELSE [st EXCEPT !.doc = put_entry(@, s, name,
              record_version(get_entry(@, s, name), version, label, opts))]

RECURSIVE diff_versions(_, _, _, _, _, _, _, _)
diff_versions(order, label, data, other_data, opts, s, name, st) ==
    IF order = <<>> \/ st.err # "none" THEN st
    ELSE diff_versions(Tail(order), label, data, other_data, opts, s, name,
             diff_version(Head(order), label, data, other_data, opts, s, name, st))

\* the scalar keys recorded with the value of the side visited under the
\* source label, whichever side that is
diff_scalars_as_visited(label, data, other_data, s, name, st) ==
    LET keys == { k \in DOMAIN data.fields \ {"label"} :
                    data.fields[k] # field_of(other_data, k) }
        both(k) == [l \in {SRC_LABEL, TGT_LABEL} |->
                      IF l = SRC_LABEL THEN data.fields[k]
                      ELSE field_of(other_data, k)]
    IN  IF keys = {} \/ st.err # "none" THEN st
        ELSE [st EXCEPT !.doc = put_entry(@, s, name,
                  [get_entry(@, s, name) EXCEPT
                      !.fields = Update(@, [k \in keys |-> both(k)])])]

\* get_diff: every key of the product other than 'versions' and 'label'
\* whose value differs is recorded as {src_label: ..., target_label: ...}
diff_scalars(label, data, other_data, s, name, st) ==
    LET keys == { k \in DOMAIN data.fields \ {"label"} :
                    data.fields[k] # field_of(other_data, k) }
        both(k) == [l \in {SRC_LABEL, TGT_LABEL} |->
                      IF l = label THEN data.fields[k] ELSE field_of(other_data, k)]
    IN  IF keys = {} \/ st.err # "none" THEN st
        ELSE [st EXCEPT !.doc = put_entry(@, s, name,
                  [get_entry(@, s, name) EXCEPT
                      !.fields = Update(@, [k \in keys |-> both(k)])])]

\* get_diff, the body of the loop over the products of one side of a stream
diff_product(pid, label, other, opts, s, st) ==
    IF replace_label(pid, label, OtherLabel(label)) \notin DOMAIN other
    THEN [st EXCEPT !.doc = put_entry(@, s, pid[2],
              [get_entry(@, s, pid[2]) EXCEPT
                  !.haslabels = TRUE, !.labels = tags(label, opts.promote)])]
    ELSE diff_scalars(label, load_content(Side(label), s)[pid],
             other[replace_label(pid, label, OtherLabel(label))], s, pid[2],
             diff_versions(
                 IF opts.new_versions_only /\ label = TGT_LABEL THEN <<>>
                 ELSE SortedVersions(DOMAIN load_content(Side(label), s)[pid].versions),
                 label, load_content(Side(label), s)[pid],
                 other[replace_label(pid, label, OtherLabel(label))],
                 opts, s, pid[2], st))

RECURSIVE diff_products(_, _, _, _, _, _)
diff_products(pids, label, other, opts, s, st) ==
    IF pids = <<>> \/ st.err # "none" THEN st
    ELSE diff_products(Tail(pids), label, other, opts, s,
             diff_product(Head(pids), label, other, opts, s, st))

\* get_diff, the body of the loop over the product streams of both roots:
\* pass = <<label of the root that lists the stream, stream name>>
diff_stream(pass, opts, st) ==
    IF pass[2] \notin DOMAIN Side(OtherLabel(pass[1]))
    THEN [st EXCEPT !.doc =
             Put(@, pass[2],
                 [(IF pass[2] \in DOMAIN @ THEN @[pass[2]] ELSE EmptyStreamDiff)
                     EXCEPT !.not_merged = OtherLabel(pass[1])])]
    ELSE diff_products(InOrder(PidOrder, DOMAIN load_content(Side(pass[1]), pass[2])),
                       pass[1], load_content(Side(OtherLabel(pass[1])), pass[2]), opts,
                       pass[2], st)

RECURSIVE diff_streams(_, _, _)
diff_streams(passes, opts, st) ==
    IF passes = <<>> \/ st.err # "none" THEN st
    ELSE diff_streams(Tail(passes), opts, diff_stream(Head(passes), opts, st))

\* get_diff(source, target, promote, new_versions_only, latest_only):
\* src_product_streams + target_product_streams, each against the other root
get_diff(opts) ==
    diff_streams(
        [n \in 1..Len(InOrder(KeyOrder, DOMAIN scat)) |->
            <<SRC_LABEL, InOrder(KeyOrder, DOMAIN scat)[n]>>]
        \o [n \in 1..Len(InOrder(KeyOrder, DOMAIN tcat)) |->
            <<TGT_LABEL, InOrder(KeyOrder, DOMAIN tcat)[n]>>],
        opts, [doc |-> EmptyMap, err |-> "none"])

\* the 'versions' mapping of an entry as the yaml document lists it
versions_list(versions) ==
    [n \in 1..Cardinality(DOMAIN versions) |->
        <<SortedVersions(DOMAIN versions)[n],
          versions[SortedVersions(DOMAIN versions)[n]]>>]

\* the entries of one stream in the yaml document: keys are written sorted,
\* 'not_merged' among them
stream_entries(s, sd) ==
    (IF sd.not_merged = "none" THEN <<>>
     ELSE <<Entry(s, "not_merged", FALSE, {}, <<>>, EmptyMap)>>)
    \o [n \in 1..Cardinality(DOMAIN sd.products) |->
          LET name == InOrder(KeyOrder, DOMAIN sd.products)[n]
              e == sd.products[name]
          IN  Entry(s, name, e.haslabels, e.labels, versions_list(e.versions),
                    e.fields)]

RECURSIVE document(_, _)
\* main_diff: yaml.safe_dump(diff), as main_patch reads it back
document(doc, order) ==
    IF order = <<>> THEN <<>>
    ELSE stream_entries(Head(order), doc[Head(order)]) \o document(doc, Tail(order))

\* main_diff: r is what get_diff returned or how it raised
DiffEffect(opts, r) ==
    /\ dres' = [opts EXCEPT !.status = IF r.err = "none" THEN "ok" ELSE "aborted"]
    /\ diff' = IF r.err = "none"
               THEN document(r.doc, InOrder(KeyOrder, DOMAIN r.doc))
               ELSE diff

\* meph2-util diff [--promote] [--new-versions-only] [--latest-only] src target
MainDiff(promote, new_versions_only, latest_only) ==
    /\ dres.status = "none"
    /\ prun.status = "idle"
    /\ DiffEffect([status |-> "none", promote |-> promote,
                   new_versions_only |-> new_versions_only,
                   latest_only |-> latest_only],
                  get_diff([promote |-> promote,
                            new_versions_only |-> new_versions_only,
                            latest_only |-> latest_only]))
    /\ UNCHANGED <<tcat, tidx, tdata, scat, sdata, prun, plog>>

\* the version ids of the two sides of a diff
DiffVersions == {V1, V10, V2}

\* a product of a side, with the key 'os' or ("absent") without it; with
\* altered, version "1" was republished with another payload
SideProduct(label, vids, os, altered) ==
    [fields   |-> IF os = "absent" THEN [label |-> Str(label)]
                  ELSE [label |-> Str(label), os |-> Str(os)],
     versions |-> [v \in vids |->
                     IF altered /\ v = V1
                     THEN [VersionPayload(v) EXCEPT
                              !.fields = Put(@, "support_eol", Str("2030"))]
                     ELSE VersionPayload(v)]]

\* the products of stream s1 on one side: p1 with any versions, p2 or not
SideCatalogs(label, oses, alterations) ==
    { [q \in {<<label, n>> : n \in N} |->
          IF q[2] = "p1" THEN SideProduct(label, vids, os, altered)
          ELSE SideProduct(label, {V1}, "ubuntu", FALSE)] :
        N \in SUBSET {"p1", "p2"}, vids \in SUBSET DiffVersions,
        os \in oses, altered \in alterations }

\* where stream s2 is listed: on both sides, one side only
ExtraStream == {"both", SRC_LABEL, TGT_LABEL}

DiffInit ==
    /\ \E src \in SideCatalogs(SRC_LABEL, {"ubuntu", "absent"}, {FALSE}),
          tgt \in SideCatalogs(TGT_LABEL, {"ubuntu", "debian", "absent"}, BOOLEAN),
          extra \in ExtraStream :
          /\ scat = [s \in (IF extra = TGT_LABEL THEN {"s1"} ELSE {"s1", "s2"}) |->
                        IF s = "s1" THEN src ELSE EmptyProducts]
          /\ tcat = [s \in (IF extra = SRC_LABEL THEN {"s1"} ELSE {"s1", "s2"}) |->
                        IF s = "s1" THEN tgt ELSE EmptyProducts]
          /\ sdata = [f \in referenced(src) |-> Declared[f]]
          /\ tdata = [f \in referenced(tgt) |-> Declared[f]]
    /\ tidx = create_index(tcat)
    /\ diff = <<>>
    /\ prun = IdleRun
    /\ plog = <<>>
    /\ dres = NoDiff
    /\ SyncQuiet /\ OrphanQuiet /\ LaterQuiet

DiffNext ==
    \E promote \in BOOLEAN, new_versions_only \in BOOLEAN, latest_only \in BOOLEAN :
        MainDiff(promote, new_versions_only, latest_only)
            /\ UNCHANGED <<syncVars, orphanVars, laterVars>>

SpecDiff == DiffInit /\ [][DiffNext]_vars

\* promotion from scratch: a candidate root with its data files, intact or
\* with a damaged f2, and a release root that lists the same streams and
\* holds no product and no file
PromoteInit ==
    /\ \E src \in SideCatalogs(SRC_LABEL, {"ubuntu"}, {FALSE}),
          extra \in {EmptyProducts,
                     [q \in {<<SRC_LABEL, "p1">>} |-> ProductOf(SRC_LABEL, {V1})]} :
          /\ scat = [s \in {"s1", "s2"} |-> IF s = "s1" THEN src ELSE extra]
          /\ sdata \in { [f \in referenced(src) \cup referenced(extra) |->
                             IF f \in bad THEN "hx" ELSE Declared[f]] :
                          bad \in {{}, {"f2"}} }
    /\ tcat = [s \in {"s1", "s2"} |-> EmptyProducts]
    /\ tidx = create_index(tcat)
    /\ tdata = EmptyMap
    /\ diff = <<>>
    /\ prun = IdleRun
    /\ plog = <<>>
    /\ dres = NoDiff
    /\ SyncQuiet /\ OrphanQuiet /\ LaterQuiet

PromoteNext ==
    \/ \E promote \in BOOLEAN, new_versions_only \in BOOLEAN,
          latest_only \in BOOLEAN :
            MainDiff(promote, new_versions_only, latest_only)
                /\ UNCHANGED <<syncVars, orphanVars, laterVars>>
    \/ \E dry \in BOOLEAN, hasSrc \in BOOLEAN :
            StartPatch(dry, hasSrc) /\ UNCHANGED <<syncVars, dres, orphanVars, laterVars>>
    \/ PatchStep /\ UNCHANGED <<syncVars, dres, orphanVars, laterVars>>

SpecPromote == PromoteInit /\ [][PromoteNext]_vars

(***************************************************************************)
(* Orphan Collector: main_find_orphans, main_reap_orphans                  *)
(***************************************************************************)
\* sutil.timestamp() of an instant, and util.read_timestamp of the string
timestamp(t) == <<"ts", t>>

read_timestamp(ts) == ts[2]

\* seconds of one unit of --older
UnitSeconds == [d |-> 86400, h |-> 3600, m |-> 60, s |-> 1]

RECURSIVE SumSeconds(_)
SumSeconds(parts) ==
    IF parts = <<>> THEN 0
    ELSE Head(parts)[1] * UnitSeconds[Head(parts)[2]] + SumSeconds(Tail(parts))

\* util.read_timedelta: the string is a sequence of <<number, unit>> tokens,
\* unit "" for a number with no unit after it.  The tokenizer keeps the
\* numbers that carry a unit; a string in which none does is read again
\* with "d" appended.
read_timedelta(string) ==
    LET parts == SelectSeq(string, LAMBDA tok : tok[2] # "")
    IN  IF parts = <<>> /\ string # <<>>
        THEN string[Len(string)][1] * UnitSeconds["d"]
        ELSE SumSeconds(parts)

\* util.get_nonorphan_set: the paths of the items of every catalog
get_nonorphan_set(cat) == UNION { referenced(cat[s]) : s \in DOMAIN cat }

\* write_orphan_file that stamps every listed path with the current time
write_orphan_file_restamp(led, orphans_list, date) ==
    [exists |-> TRUE, entries |-> [o \in orphans_list |-> date]]

\* write_orphan_file that keeps every path the file already knows
write_orphan_file_keeping(led, orphans_list, date) ==
    [exists |-> TRUE,
     entries |-> [o \in orphans_list \cup DOMAIN led.entries |->
                    IF o \in DOMAIN led.entries THEN led.entries[o] ELSE date]]

\* util.write_orphan_file(filename, orphans_list): listed paths the file
\* already knows keep their timestamp, the others get the current time
write_orphan_file(led, orphans_list, date) ==
    [exists |-> TRUE,
     entries |-> [o \in orphans_list |->
                    IF led.exists /\ o \in DOMAIN led.entries
                    THEN led.entries[o] ELSE date]]

\* the reap test with <= for <
expired_inclusive(when, delta, now) == when + delta <= now

\* main_reap_orphans: read_timestamp(when) + delta < now
expired(when, delta, now) == when + delta < now

\* meph2-util find-orphans orphan_data data_d
FindOrphans ==
    /\ ledger' = write_orphan_file(ledger,
                     DOMAIN tdata \ get_nonorphan_set(tcat), timestamp(clock))
    /\ olast' = [NoReap EXCEPT !.op = "find", !.files = DOMAIN tdata,
                                !.known = ledger.entries]
    /\ UNCHANGED <<tcat, tidx, tdata, scat, sdata, diff, prun, plog, dres, clock>>

\* main_reap_orphans once the set that is reaped is known
ReapEffect(older, force, dry, reaped) ==
    /\ tdata' = Drop(tdata, reaped)
    /\ ledger' = IF dry THEN ledger
                 ELSE write_orphan_file(ledger, DOMAIN ledger.entries \ reaped,
                                        timestamp(clock))
    /\ olast' = [op |-> "reap", older |-> older, force |-> force, dry |-> dry,
                 now |-> read_timestamp(timestamp(clock)), files |-> DOMAIN tdata,
                 known |-> ledger.entries, reaped |-> reaped]

\* meph2-util reap-orphans [--older OLDER] [--now] [--dry-run] orphan_data data_d
\* (read_orphan_file raises when there is no orphan file)
ReapOrphans(older, force, dry) ==
    /\ ledger.exists
    /\ ReapEffect(older, force, dry,
           IF dry THEN {}
           ELSE { o \in DOMAIN ledger.entries :
                    force \/ expired(read_timestamp(ledger.entries[o]),
                                     read_timedelta(older),
                                     read_timestamp(timestamp(clock))) })
    /\ UNCHANGED <<tcat, tidx, scat, sdata, diff, prun, plog, dres, clock>>

\* main_remove_version without filters: the version leaves every product
RemoveVersionCmd(version) ==
    /\ \E s \in DOMAIN tcat : \E q \in DOMAIN tcat[s] :
          version \in DOMAIN tcat[s][q].versions
    /\ tcat' = [s \in DOMAIN tcat |->
                  [q \in DOMAIN tcat[s] |->
                     [tcat[s][q] EXCEPT !.versions = Drop(@, {version})]]]
    /\ olast' = NoReap
    /\ UNCHANGED <<tidx, tdata, scat, sdata, diff, prun, plog, dres, ledger, clock,
                   tupdated>>

\* what a catalog update that publishes a version leaves behind
PublishEffect(s, q, r) ==
    /\ r.err = "none"
    /\ tcat' = [tcat EXCEPT ![s][q] = r.prod]
    /\ tdata' = r.data

\* a catalog update between two collector runs: patch_versions adds the
\* version to a product of the target and copy_items places its files
PublishVersion(s, q, version) ==
    /\ version \notin DOMAIN tcat[s][q].versions
    /\ PublishEffect(s, q,
           add_version(version, VersionPayload(version), FALSE,
               [content |-> tcat[s], prod |-> tcat[s][q], data |-> tdata,
                err |-> "none", fail |-> "none", write |-> FALSE,
                regen |-> FALSE]))
    /\ olast' = NoReap
    /\ UNCHANGED <<tidx, scat, sdata, diff, prun, plog, dres, ledger, clock,
                   tupdated>>

\* a file under the data root that no catalog refers to is removed by hand
\* between two collector runs, so that os.walk no longer finds it
UnlinkFile(f) ==
    /\ f \in DOMAIN tdata \ get_nonorphan_set(tcat)
    /\ tdata' = Drop(tdata, {f})
    /\ olast' = NoReap
    /\ UNCHANGED <<tcat, tidx, scat, sdata, diff, prun, plog, dres, ledger, clock>>

\* the instants at which the model looks at the clock
Instants == {0, 1, 2, 3, 62, 86401}

Tick(t) ==
    /\ t > clock
    /\ clock' = t
    /\ olast' = NoReap
    /\ UNCHANGED <<tcat, tidx, tdata, scat, sdata, diff, prun, plog, dres, ledger,
                   tupdated>>

\* --older: "", "2s", "1m1s", "1" (no unit: days) and "1m30" (the 30 is lost)
OlderArgs ==
    { <<>>, << <<2, "s">> >>, << <<1, "m">>, <<1, "s">> >>, << <<1, "">> >>,
      << <<1, "m">>, <<30, "">> >> }

OrphanInit ==
    /\ \E vids \in SUBSET {V1, V2}, stray \in SUBSET {"f3"} :
          /\ tcat = [s \in {"s1"} |->
                        [q \in {<<TGT_LABEL, "p1">>} |-> ProductOf(TGT_LABEL, vids)]]
          /\ tdata = [f \in {"f1", "f2"} \cup stray |->
                         IF f \in DOMAIN Declared THEN Declared[f] ELSE "h3"]
    /\ tidx = create_index(tcat)
    /\ scat = EmptyMap
    /\ sdata = Declared
    /\ diff = <<>>
    /\ prun = IdleRun
    /\ plog = <<>>
    /\ dres = NoDiff
    /\ ledger = NoLedger
    /\ clock = 0
    /\ olast = NoReap
    /\ SyncQuiet /\ LaterQuiet

OrphanNext ==
    \/ FindOrphans /\ UNCHANGED <<syncVars, laterVars>>
    \/ \E older \in OlderArgs, force \in BOOLEAN, dry \in BOOLEAN :
          ReapOrphans(older, force, dry) /\ UNCHANGED <<syncVars, laterVars>>
    \/ \E version \in {V1, V2} : RemoveVersionCmd(version) /\ UNCHANGED <<syncVars, laterVars>>
    \/ \E version \in {V1, V2} :
          PublishVersion("s1", <<TGT_LABEL, "p1">>, version) /\ UNCHANGED <<syncVars, laterVars>>
    \/ \E f \in {"f3"} : UnlinkFile(f) /\ UNCHANGED <<syncVars, laterVars>>
    \/ \E t \in Instants : Tick(t) /\ UNCHANGED <<syncVars, laterVars>>

SpecOrphan == OrphanInit /\ [][OrphanNext]_vars

(***************************************************************************)
(* Catalog maintenance: the commands that rewrite a catalog of a root      *)
(***************************************************************************)
\* what a sync run staged for the catalog of a stream: nothing, or one item
\* of version 2
MirrorStaged ==
    { <<>>, << << <<<<TGT_LABEL, "p1">>, V2, "i1">>, ItemRec("f1") >> >> }

\* BareMirrorWriter.insert_products for the catalog of stream s: the touched
\* products are rebuilt, the tree is condensed, 'updated' is set to
\* sutil.timestamp() and the tree is written
MirrorInsertProducts(s, ins) ==
    /\ tcat' = [tcat EXCEPT ![s] =
                   products_condense(InsertProductsTree(tcat[s], ins, <<>>),
                                     STICKY_BARE)]
    /\ tupdated' = [tupdated EXCEPT ![s] = timestamp(clock)]
    /\ olast' = NoReap
    /\ UNCHANGED <<tidx, tdata, scat, sdata, diff, prun, plog, dres, ledger, clock>>

\* the instants at which a maintenance command may run
MaintInstants == {1, 2, 86400, 86401}

\* the content id and the product id of the import configuration
BOOT_STREAM == "sb"

BOOT_PRODUCT == <<"candidate", "grub">>

\* the character '.', which sorts before every digit
DOT == 0 - 1

\* "%d" % point
RECURSIVE Decimal(_)
Decimal(n) == IF n < 10 THEN <<n>> ELSE Decimal(n \div 10) \o <<n % 10>>

\* datetime.utcnow().strftime('%Y%m%d'): one symbol per day, in the order
\* of the days
Today(now) == <<now \div 86400>>

\* version = "%s.%d" % (today, point)
BootVersion(today, point) == today \o <<DOT>> \o Decimal(point)

\* the most imports of one day
MaxPoint == 2

RECURSIVE first_unused(_, _, _)
\* import_bootloaders, "Find an unused version": the first point for which
\* today's version is not in the product
first_unused(versions, today, point) ==
    IF BootVersion(today, point) \notin versions THEN point
    ELSE first_unused(versions, today, point + 1)

\* the file extract_files_from_packages places under
\* bootloaders/<firmware-platform>/<arch>/<version>
BootFiles ==
    << <<"b0.0", "b0.1", "b0.2", "b0.3">>, <<"b1.0", "b1.1", "b1.2", "b1.3">> >>

BootFile(today, point) == BootFiles[today[1] + 1][point + 1]

\* the versions of the source package the archive can hold
ArchiveVersions == {"g1", "g2"}

\* the items of an imported version
BootItems(file, src_version) ==
    [i \in {"grub"} |->
        [path |-> Str(file), sha256 |-> Str("hb"), src_package |-> Str("grub2"),
         src_version |-> Str(src_version), src_release |-> Str("r1")]]

\* import_bootloaders, "Check if the bootloader has been built from the
\* latest version": the items of versions[max(versions.keys())] against the
\* archive
bootloader_uptodate(product, src_version) ==
    LET latest == CHOOSE v \in DOMAIN product.versions :
                     \A w \in DOMAIN product.versions \ {v} : LexLess(w, v)
    IN  \E i \in DOMAIN product.versions[latest].items :
           LET item == product.versions[latest].items[i]
           IN  /\ item.src_package = Str("grub2")
               /\ item.src_version = Str(src_version)
               /\ item.src_release = Str("r1")

\* the product tree main_import hands to import_bootloaders
boot_products == IF BOOT_STREAM \in DOMAIN tcat THEN tcat[BOOT_STREAM] ELSE EmptyProducts

\* what main_import writes: the catalog with 'updated' set, the index
ImportWrite(products) ==
    /\ tcat' = Put(tcat, BOOT_STREAM, products)
    /\ tupdated' = Put(tupdated, BOOT_STREAM, timestamp(clock))
    /\ tidx' = create_index(Put(tcat, BOOT_STREAM, products))

\* import_bootloaders with a product that is not up to date: the version is
\* created; os.makedirs raises when its directory is still there
ImportVersion(products, src_version, today, point) ==
    /\ point <= MaxPoint
    /\ BootFile(today, point) \notin DOMAIN tdata
    /\ tdata' = Put(tdata, BootFile(today, point), "hb")
    /\ ImportWrite(
          products_set(
              IF BOOT_PRODUCT \in DOMAIN products THEN products
              ELSE Put(products, BOOT_PRODUCT,
                       [fields |-> [label |-> Str("candidate"), os |-> Str("grub")],
                        versions |-> EmptyVersions]),
              BootItems(BootFile(today, point), src_version)["grub"],
              <<BOOT_PRODUCT, BootVersion(today, point), "grub">>))

\* meph2-import with a bootloaders configuration: main_import loads the
\* products, import_bootloaders adds a version unless the latest one was
\* built from the packages in the archive, and the catalog and the index
\* are written.  max() of a product without versions raises.
ImportBootloaders(src_version) ==
    /\ BOOT_PRODUCT \in DOMAIN boot_products
           => DOMAIN boot_products[BOOT_PRODUCT].versions # {}
    /\ IF /\ BOOT_PRODUCT \in DOMAIN boot_products
          /\ bootloader_uptodate(boot_products[BOOT_PRODUCT], src_version)
       THEN ImportWrite(boot_products) /\ tdata' = tdata
       ELSE ImportVersion(boot_products, src_version, Today(clock),
                first_unused(IF BOOT_PRODUCT \in DOMAIN boot_products
                             THEN DOMAIN boot_products[BOOT_PRODUCT].versions
                             ELSE {},
                             Today(clock), 0))
    /\ olast' = NoReap
    /\ UNCHANGED <<scat, sdata, diff, prun, plog, dres, ledger, clock>>

\* the version ids remove-version is called with
ImportedVersions == {BootVersion(<<0>>, 0), BootVersion(<<0>>, 1)}

\* the instant at which the day changes
ImportInstants == {86400}

MaintInit ==
    /\ \E vids \in SUBSET {V1, V2} :
          tcat = [s \in {"s1"} |->
                    [q \in {<<TGT_LABEL, "p1">>} |-> ProductOf(TGT_LABEL, vids)]]
    /\ tidx = create_index(tcat)
    /\ tdata = Declared
    /\ scat = EmptyMap
    /\ sdata = Declared
    /\ diff = <<>>
    /\ prun = IdleRun
    /\ plog = <<>>
    /\ dres = NoDiff
    /\ ledger = NoLedger
    /\ clock = 0
    /\ olast = NoReap
    /\ tupdated = [s \in {"s1"} |-> timestamp(0)]
    /\ SyncQuiet /\ NetQuiet /\ FileQuiet /\ CopyQuiet /\ CleanQuiet

MaintNext ==
    \/ \E ins \in MirrorStaged :
          MirrorInsertProducts("s1", ins)
              /\ UNCHANGED <<syncVars, netVars, fileVars, copyVars, cleanVars>>
    \/ \E version \in {V1, V2} :
          RemoveVersionCmd(version)
              /\ UNCHANGED <<syncVars, netVars, fileVars, copyVars, cleanVars>>
    \/ \E version \in {V1, V2} :
          PublishVersion("s1", <<TGT_LABEL, "p1">>, version)
              /\ UNCHANGED <<syncVars, netVars, fileVars, copyVars, cleanVars>>
    \/ \E t \in MaintInstants : Tick(t)
              /\ UNCHANGED <<syncVars, netVars, fileVars, copyVars, cleanVars>>

SpecMaint == MaintInit /\ [][MaintNext]_vars

\* meph2-import into a target root that holds nothing yet, with
\* remove-version and the collector run on the same root
ImportInit ==
    /\ tcat = EmptyMap
    /\ tidx = EmptyMap
    /\ tdata = EmptyMap
    /\ scat = EmptyMap
    /\ sdata = EmptyMap
    /\ diff = <<>>
    /\ prun = IdleRun
    /\ plog = <<>>
    /\ dres = NoDiff
    /\ ledger = NoLedger
    /\ clock = 0
    /\ olast = NoReap
    /\ tupdated = EmptyMap
    /\ SyncQuiet /\ NetQuiet /\ FileQuiet /\ CopyQuiet /\ CleanQuiet

ImportNext ==
    \/ \E src_version \in ArchiveVersions :
          ImportBootloaders(src_version)
              /\ UNCHANGED <<syncVars, netVars, fileVars, copyVars, cleanVars>>
    \/ \E version \in ImportedVersions :
          RemoveVersionCmd(version)
              /\ UNCHANGED <<syncVars, netVars, fileVars, copyVars, cleanVars>>
    \/ FindOrphans
              /\ UNCHANGED <<syncVars, netVars, fileVars, copyVars, cleanVars,
                             tupdated>>
    \/ ReapOrphans(<<>>, TRUE, FALSE)
              /\ UNCHANGED <<syncVars, netVars, fileVars, copyVars, cleanVars,
                             tupdated>>
    \/ \E t \in ImportInstants : Tick(t)
              /\ UNCHANGED <<syncVars, netVars, fileVars, copyVars, cleanVars>>

SpecImport == ImportInit /\ [][ImportNext]_vars

(***************************************************************************)
(* netinst: get_products_data and its MineNetbootMetaData threads          *)
(***************************************************************************)
NUM_THREADS == 10

\* releases, pockets and arches in the order get_products_data loops over them
NetReleases == <<"trusty">>

POCKETS == <<"release", "updates">>

NetArches == <<"a1", "a2">>

\* ubuntu_info.REL2VER: the known releases and their versions
REL2VER == [trusty |-> "14.04", xenial |-> "16.04"]

\* the work units in the order they are put on in_queue
Places ==
    [n \in 1..(Len(NetReleases) * Len(POCKETS) * Len(NetArches)) |->
        [release |-> NetReleases[((n - 1) \div (Len(POCKETS) * Len(NetArches))) + 1],
         pocket  |-> POCKETS[(((n - 1) \div Len(NetArches)) % Len(POCKETS)) + 1],
         arch    |-> NetArches[((n - 1) % Len(NetArches)) + 1]]]

\* num_t = min(num_places, NUM_THREADS)
Threads == 1..(IF Len(Places) < NUM_THREADS THEN Len(Places) ELSE NUM_THREADS)

\* the d-i version directories a place can list
Serials == {"d1", "d2"}

\* the local path of the kernel of a serial: FILES_PREFIX, release, arch,
\* serial, kernel-release, kernel-flavor; the pocket is not part of it
NPath ==
    [a1 |-> [d1 |-> "files/trusty/a1/d1/kernel", d2 |-> "files/trusty/a1/d2/kernel"],
     a2 |-> [d1 |-> "files/trusty/a2/d1/kernel", d2 |-> "files/trusty/a2/d2/kernel"]]

\* the url of that kernel: the installer directory of release + psuffix
Url(place, serial) == <<place.release, place.pocket, place.arch, serial>>

\* what mine_md can find at a place: an exception, or one or two serials
MineOutcomes ==
    { [error |-> TRUE, serials |-> {}] } \cup
    { [error |-> FALSE, serials |-> S] : S \in {{"d1"}, {"d1", "d2"}} }

\* MineNetbootMetaData.run, one work unit: the data put on out_queue
WorkerResult(place, found) ==
    IF found.error
    THEN [place |-> place, error |-> TRUE, versions |-> EmptyVersions,
          map |-> EmptyMap]
    ELSE [place |-> place, error |-> FALSE,
          versions |-> [d \in found.serials |->
                          [fields |-> EmptyMap,
                           items  |-> [k \in {"trgekernel"} |->
                                         [ftype |-> Str("kernel"),
                                          path  |-> Str(NPath[place.arch][d])]]]],
          map |-> [f \in {NPath[place.arch][d] : d \in found.serials} |->
                     Url(place, CHOOSE d \in found.serials :
                                   NPath[place.arch][d] = f)]]

\* a thread takes the next work unit: self.in_queue.get()
WorkerGet(t) ==
    /\ nres.status = "none"
    /\ nthread[t] = NoUnit
    /\ in_queue # <<>>
    /\ nthread' = [nthread EXCEPT ![t] = Head(in_queue)]
    /\ in_queue' = Tail(in_queue)
    /\ UNCHANGED <<nmined, out_queue, nres>>

\* the thread has mined its unit: self.out_queue.put(data), task_done()
WorkerPut(t) ==
    /\ nthread[t] # NoUnit
    /\ out_queue' = Append(out_queue, WorkerResult(nthread[t], nmined[nthread[t]]))
    /\ nthread' = [nthread EXCEPT ![t] = NoUnit]
    /\ UNCHANGED <<nmined, in_queue, nres>>

\* the sticky list products_condense uses when it is given none
CONDENSE_STICKY == {"ftype", "md5", "sha256", "size", "name", "id"}

\* get_products_data, the body of the serial loop for one result
merge_data(acc, data) ==
    IF data.error THEN [acc EXCEPT !.errors = Append(@, data.place)]
    ELSE LET pname == <<REL2VER[data.place.release], data.place.arch>>
             versions == [d \in DOMAIN data.versions |->
                            [data.versions[d] EXCEPT
                                !.fields = Put(@, "pocket", Str(data.place.pocket))]]
             product == [fields   |-> [release |-> Str(data.place.release),
                                       version |-> Str(REL2VER[data.place.release]),
                                       arch    |-> Str(data.place.arch)],
                         versions |-> versions]
         IN  [acc EXCEPT
                !.products = IF pname \notin DOMAIN @ THEN Put(@, pname, product)
                             ELSE [@ EXCEPT ![pname].versions = Update(@, versions)],
                !.pathmap = Update(@, data.map)]

RECURSIVE merge_loop(_, _)
merge_loop(acc, queue) ==
    IF queue = <<>> THEN acc
    ELSE merge_loop(merge_data(acc, Head(queue)), Tail(queue))

\* get_products_data after in_queue.join(): the results are processed in
\* the order out_queue holds them; the first error is raised, or the
\* condensed tree and the path map are returned
get_products_data(queue) ==
    LET acc == merge_loop([products |-> EmptyMap, pathmap |-> EmptyMap,
                           errors |-> <<>>], queue)
    IN  IF acc.errors # <<>>
        THEN [NoResult EXCEPT !.status = "raised", !.error = acc.errors[1]]
        ELSE [NoResult EXCEPT !.status = "returned",
                              !.products = products_condense(acc.products,
                                                             CONDENSE_STICKY),
                              !.pathmap = acc.pathmap]

\* in_queue.join() has returned: every unit was taken and reported
GetProductsData ==
    /\ nres.status = "none"
    /\ in_queue = <<>>
    /\ \A t \in Threads : nthread[t] = NoUnit
    /\ nres' = get_products_data(out_queue)
    /\ UNCHANGED <<nmined, in_queue, nthread, out_queue>>

NetInit ==
    /\ nmined \in [{Places[n] : n \in DOMAIN Places} -> MineOutcomes]
    /\ in_queue = Places
    /\ nthread = [t \in Threads |-> NoUnit]
    /\ out_queue = <<>>
    /\ nres = NoResult
    /\ SyncQuiet /\ PatchQuiet /\ DiffQuiet /\ OrphanQuiet /\ MaintQuiet
    /\ FileQuiet /\ CopyQuiet /\ CleanQuiet

NetNext ==
    \/ \E t \in Threads :
          WorkerGet(t)
              /\ UNCHANGED <<syncVars, patchVars, diffVars, orphanVars, maintVars,
                             fileVars, copyVars, cleanVars>>
    \/ \E t \in Threads :
          WorkerPut(t)
              /\ UNCHANGED <<syncVars, patchVars, diffVars, orphanVars, maintVars,
                             fileVars, copyVars, cleanVars>>
    \/ GetProductsData
          /\ UNCHANGED <<syncVars, patchVars, diffVars, orphanVars, maintVars,
                         fileVars, copyVars, cleanVars>>

SpecNet == NetInit /\ [][NetNext]_vars

(***************************************************************************)
(* netinst: get_file_item_data.  A string is the sequence of its           *)
(* characters.                                                             *)
(***************************************************************************)
\* '.' of a regular expression
ANY == "<any>"

\* s.startswith(p), p in s, and re.compile(pat + "$").search(s)
StartsWith(s, p) == Len(p) <= Len(s) /\ SubSeq(s, 1, Len(p)) = p

Contains(s, p) ==
    \E i \in 1..(Len(s) - Len(p) + 1) : SubSeq(s, i, i + Len(p) - 1) = p

SearchEnd(s, pat) ==
    /\ Len(pat) <= Len(s)
    /\ \A i \in 1..Len(pat) : pat[i] = ANY \/ s[Len(s) - Len(pat) + i] = pat[i]

RECURSIVE Split(_, _)
\* s.split("/"), cur the token read so far
Split(s, cur) ==
    IF s = <<>> THEN <<cur>>
    ELSE IF Head(s) = "/" THEN <<cur>> \o Split(Tail(s), <<>>)
    ELSE Split(Tail(s), Append(cur, Head(s)))

RECURSIVE Join(_)
\* "/".join(toks)
Join(toks) ==
    IF Len(toks) = 1 THEN toks[1] ELSE toks[1] \o <<"/">> \o Join(Tail(toks))

\* the characters of the release names
ReleaseName ==
    [trusty |-> <<"t", "r", "u", "s", "t", "y">>,
     xenial |-> <<"x", "e", "n", "i", "a", "l">>,
     base   |-> <<"b", "a", "s", "e">>]

\* FTYPE_MATCHES, in the order of the dict
FTYPE_MATCHES ==
    << <<"initrd", {<<"i", "n", "i", "t", "r", "d", ANY, "g", "z">>,
                    <<"i", "n", "i", "t", "r", "d", ANY, "u", "b", "u", "n", "t", "u">>,
                    <<"u", "I", "n", "i", "t", "r", "d">>}>>,
       <<"kernel", {<<"k", "e", "r", "n", "e", "l", ANY, "u", "b", "u", "n", "t", "u">>,
                    <<"l", "i", "n", "u", "x">>,
                    <<"u", "I", "m", "a", "g", "e">>,
                    <<"v", "m", "l", "i", "n", "u", "x">>,
                    <<"v", "m", "l", "i", "n", "u", "z">>}>>,
       <<"dtb", {<<ANY, "d", "t", "b">>}>> >>

other_iflavor_toks ==
    { <<"x", "e", "n">>,
      <<"c", "d", "r", "o", "m">>,
      <<"g", "t", "k">> }

KERNEL_FLAVORS ==
    << <<"a", "r", "m", "a", "d", "a", "x", "p">>,
       <<"g", "e", "n", "e", "r", "i", "c">>,
       <<"g", "e", "n", "e", "r", "i", "c", "-", "l", "p", "a", "e">>,
       <<"h", "i", "g", "h", "b", "a", "n", "k">>,
       <<"k", "e", "y", "s", "t", "o", "n", "e">>,
       <<"n", "o", "n", "-", "p", "a", "e">>,
       <<"o", "m", "a", "p">>,
       <<"o", "m", "a", "p", "4">> >>

IMAGE_FORMATS ==
    << <<"b", "e", "a", "g", "l", "e", "b", "o", "a", "r", "d">>,
       <<"d", "e", "f", "a", "u", "l", "t">>,
       <<"p", "a", "n", "d", "a", "b", "o", "a", "r", "d">>,
       <<"t", "e", "g", "r", "a">>,
       <<"w", "a", "n", "d", "b", "o", "a", "r", "d">>,
       <<"w", "a", "n", "d", "b", "o", "a", "r", "d", "-", "q", "u", "a", "d">>,
       <<"x", "g", "e", "n", "e">> >>

DTB_TO_FORMAT_KEY == <<"a", "p", "m", "-", "m", "u", "s", "t", "a", "n", "g", ".", "d", "t", "b">>

\* the first ftype whose pattern matches, "" when none does
file_type(path) ==
    LET hits == SelectSeq(FTYPE_MATCHES,
                          LAMBDA m : \E pat \in m[2] : SearchEnd(path, pat))
    IN  IF hits = <<>> THEN "" ELSE hits[1][1]

\* the known release the path starts with, the release argument otherwise
kernel_release(path, release) ==
    IF \E rel \in DOMAIN REL2VER : StartsWith(path, ReleaseName[rel] \o <<"-">>)
    THEN ReleaseName[CHOOSE rel \in DOMAIN REL2VER :
                         StartsWith(path, ReleaseName[rel] \o <<"-">>)]
    ELSE release

\* the format DTB_TO_FORMAT gives the basename, else 'xgene' when
\* 'xgene-uboot' is a token, else for a path of four tokens the first image
\* format among them, else 'default'
image_format(ptoks) ==
    LET has(t) == \E n \in DOMAIN ptoks : ptoks[n] = t
        fmts == SelectSeq(IMAGE_FORMATS, has)
    IN  IF ptoks[Len(ptoks)] = DTB_TO_FORMAT_KEY THEN <<"x", "g", "e", "n", "e">>
        ELSE IF has(<<"x", "g", "e", "n", "e", "-", "u", "b", "o", "o", "t">>)
        THEN <<"x", "g", "e", "n", "e">>
        ELSE IF Len(ptoks) = 4 /\ fmts # <<>> THEN fmts[1]
        ELSE <<"d", "e", "f", "a", "u", "l", "t">>

RECURSIVE kernel_flavor_loop(_, _, _)
\* the loop over KERNEL_FLAVORS: a flavor that is a token ends the loop, one
\* that occurs as <release>-<flavor> is kept and the loop goes on
kernel_flavor_loop(flavs, ptoks, cur) ==
    IF flavs = <<>> THEN cur
    ELSE IF \E n \in DOMAIN ptoks : ptoks[n] = Head(flavs) THEN Head(flavs)
    ELSE kernel_flavor_loop(
             Tail(flavs), ptoks,
             IF \E n \in DOMAIN ptoks, r \in DOMAIN REL2VER :
                   ptoks[n] = ReleaseName[r] \o <<"-">> \o Head(flavs)
             THEN Head(flavs) ELSE cur)

kernel_flavor(ptoks) ==
    kernel_flavor_loop(KERNEL_FLAVORS, ptoks,
                       <<"g", "e", "n", "e", "r", "i", "c">>)

\* what get_file_item_data returns for a path that is not rejected
file_item(path, release) ==
    [returned |-> TRUE, none |-> FALSE,
     data |-> [ftype |-> file_type(path),
               image_format |-> image_format(Split(path, <<>>)),
               initrd_flavor |-> <<"n", "e", "t", "b", "o", "o", "t">>,
               kernel_flavor |-> kernel_flavor(Split(path, <<>>)),
               kernel_release |-> kernel_release(path, release)]]

\* get_file_item_data that looks for the other flavors among the tokens
get_file_item_data_by_token(path, release) ==
    IF \E n \in DOMAIN Split(path, <<>>) :
          Split(path, <<>>)[n] \in other_iflavor_toks
    THEN ReturnedNone
    ELSE IF file_type(path) = "" THEN ReturnedNone
    ELSE file_item(path, release)

\* get_file_item_data(path, release)
get_file_item_data(path, release) ==
    IF \E other \in other_iflavor_toks : Contains(path, other \o <<"/">>)
    THEN ReturnedNone
    ELSE IF file_type(path) = "" THEN ReturnedNone
    ELSE file_item(path, release)

\* the tokens of the paths a sums file lists
PathTokens ==
    { <<"l", "i", "n", "u", "x">>,
      <<"i", "n", "i", "t", "r", "d", ".", "g", "z">>,
      <<"x", ".", "d", "t", "b">>,
      <<"d", "t", "b">>,
      <<"x", "e", "n">>,
      <<"o", "x", "e", "n">>,
      <<"x", "e", "n", "i", "a", "l", "-", "g", "e", "n", "e", "r", "i", "c">>,
      <<"z", "e", "s", "t", "y", "-", "o", "m", "a", "p">> }

\* the most tokens of a path
MaxPathToks == 3

GetFileItemData ==
    /\ ~gf_ret.returned
    /\ gf_ret' = get_file_item_data(gf_args.path, gf_args.release)
    /\ UNCHANGED gf_args

FileInit ==
    /\ gf_args \in { [path |-> Join(toks), release |-> ReleaseName[rel]] :
                       toks \in UNION { [1..n -> PathTokens] : n \in 1..MaxPathToks },
                       rel \in {"trusty", "base"} }
    /\ gf_ret = NotReturned
    /\ SyncQuiet /\ PatchQuiet /\ DiffQuiet /\ OrphanQuiet /\ MaintQuiet
    /\ NetQuiet /\ CopyQuiet /\ CleanQuiet

FileNext ==
    GetFileItemData
        /\ UNCHANGED <<syncVars, patchVars, diffVars, orphanVars, maintVars, netVars,
                       copyVars, cleanVars>>

SpecFile == FileInit /\ [][FileNext]_vars

(***************************************************************************)
(* util.copy_fh: the copy of a source into the destination directory       *)
(***************************************************************************)

\* the buffer length of one read (1024*8 in the code) and the longest source
BUFLEN == 2

MaxSrcLen == 3

\* the digests are the byte sums modulo HashMod: different contents can
\* have the same digest
HashMod == 3

RECURSIVE Sum(_)
Sum(bytes) == IF bytes = <<>> THEN 0 ELSE Head(bytes) + Sum(Tail(bytes))

\* checksummer.hexdigest() after the updates with these bytes
hexdigest(bytes) == Sum(bytes) % HashMod

\* checksummer.check(): nothing is expected, or the digest is the expected
summer_check(cksums, bytes) ==
    cksums.kind = "none" \/ cksums.sum = hexdigest(bytes)

\* what the environment may do to one call: nothing, os.makedirs failing
\* with another errno than EEXIST, src.read or tf.write raising at the n-th
\* buffer, os.rename failing
Faults ==
    { [at |-> a, chunk |-> 0] : a \in {"none", "makedirs", "rename"} }
        \cup { [at |-> a, chunk |-> n] : a \in {"read", "write"}, n \in 1..2 }

RECURSIVE copy_loop(_, _, _, _)
\* the while loop: src is what the source still holds, n the number of the
\* read, run.read what the summer was updated with, run.tmp what was written
copy_loop(src, fault, n, run) ==
    IF fault = [at |-> "read", chunk |-> n]
    THEN [run EXCEPT !.exc = "IOError"]
    ELSE IF fault = [at |-> "write", chunk |-> n]
    THEN [run EXCEPT !.read = @ \o (IF Len(src) < BUFLEN THEN src
                                    ELSE SubSeq(src, 1, BUFLEN)),
                     !.exc = "OSError"]
    ELSE IF Len(src) < BUFLEN
    THEN [run EXCEPT !.read = @ \o src, !.tmp = @ \o src]
    ELSE copy_loop(SubSeq(src, BUFLEN + 1, Len(src)), fault, n + 1,
                   [run EXCEPT !.read = @ \o SubSeq(src, 1, BUFLEN),
                               !.tmp = @ \o SubSeq(src, 1, BUFLEN)])

\* the name tempfile.NamedTemporaryFile gives the file it creates
TempName == "tmp"

\* the finally block, ok being summer.check(): the temp file is renamed to
\* the final path (unlinked when the rename fails), or it is unlinked and
\* ValueError is raised.  After a rename the exception of the loop, if there
\* was one, goes on.  dir holds the temp file.
copy_finally(ok, run, dir, fault) ==
    IF ok /\ fault.at # "rename"
    THEN [dir |-> [final |-> [exists |-> TRUE, bytes |-> run.tmp],
                   temps |-> dir.temps \ {TempName}],
          ret |-> [status |-> IF run.exc = "none" THEN "returned" ELSE run.exc,
                   opened |-> TRUE, renamed |-> TRUE, read |-> run.read]]
    ELSE [dir |-> [dir EXCEPT !.temps = @ \ {TempName}],
          ret |-> [status |-> IF ok THEN "OSError" ELSE "ValueError",
                   opened |-> TRUE, renamed |-> FALSE, read |-> run.read]]

\* copy_fh with a finally block that renames whatever the summer says
copy_fh_unverified(src, cksums, dir, fault) ==
    IF cksums.kind = "nohash"
    THEN [dir |-> dir, ret |-> [NotCalled EXCEPT !.status = "TypeError"]]
    ELSE IF fault.at = "makedirs"
    THEN [dir |-> dir, ret |-> [NotCalled EXCEPT !.status = "OSError"]]
    ELSE copy_finally(TRUE,
                      copy_loop(src, fault, 1,
                                [read |-> <<>>, tmp |-> <<>>, exc |-> "none"]),
                      [dir EXCEPT !.temps = @ \cup {TempName}], fault)

\* copy_fh(src, path, cksums=cksums): sutil.checksummer raises TypeError when
\* cksums names no hash it knows, os.makedirs may fail; then the temp file is
\* created in the directory of path, the loop runs and the finally block
\* decides
copy_fh(src, cksums, dir, fault) ==
    IF cksums.kind = "nohash"
    THEN [dir |-> dir, ret |-> [NotCalled EXCEPT !.status = "TypeError"]]
    ELSE IF fault.at = "makedirs"
    THEN [dir |-> dir, ret |-> [NotCalled EXCEPT !.status = "OSError"]]
    ELSE copy_finally(
             summer_check(cksums,
                 copy_loop(src, fault, 1,
                           [read |-> <<>>, tmp |-> <<>>, exc |-> "none"]).read),
             copy_loop(src, fault, 1,
                       [read |-> <<>>, tmp |-> <<>>, exc |-> "none"]),
             [dir EXCEPT !.temps = @ \cup {TempName}], fault)

\* util.copy_fh(src=srcfd, path=lpath, cksums=item), as create_version calls it
CopyFh(fault) ==
    /\ cp_ret.status = "none"
    /\ cp_dir' = copy_fh(cp_args.src, cp_args.cksums, cp_dir, fault).dir
    /\ cp_ret' = copy_fh(cp_args.src, cp_args.cksums, cp_dir, fault).ret
    /\ UNCHANGED cp_args

\* the sources, the checksums of an item (none, one the summer knows, none
\* it knows) and what is at the final path
CopyInit ==
    /\ cp_args \in
          { [src |-> b, cksums |-> c] :
              b \in UNION { [1..n -> {1, 2}] : n \in 0..MaxSrcLen },
              c \in { [kind |-> "none", sum |-> 0], [kind |-> "nohash", sum |-> 0] }
                       \cup { [kind |-> "sha256", sum |-> h] : h \in 0..(HashMod - 1) } }
    /\ cp_dir \in { [final |-> f, temps |-> {}] :
                      f \in {NoFile, [exists |-> TRUE, bytes |-> <<2, 2, 2>>]} }
    /\ cp_ret = NotCalled
    /\ SyncQuiet /\ PatchQuiet /\ DiffQuiet /\ OrphanQuiet /\ MaintQuiet
    /\ NetQuiet /\ FileQuiet /\ CleanQuiet

CopyNext ==
    \E fault \in Faults :
        CopyFh(fault)
            /\ UNCHANGED <<syncVars, patchVars, diffVars, orphanVars, maintVars,
                           netVars, fileVars, cleanVars>>

SpecCopy == CopyInit /\ [][CopyNext]_vars

(***************************************************************************)
(* meph2-util clean-md: a mirror synced onto itself with --max             *)
(***************************************************************************)

\* filters.filter_item on a version pedigree: the product and version
\* fields are flattened and every filter (key=value) has to match, a
\* missing key reading as the empty string
filter_item(filters, tree, ped) ==
    LET data == Update(stringitems(tree[ped[1]].fields),
                       stringitems(tree[ped[1]].versions[ped[2]].fields))
    IN  \A f \in filters :
            (IF f.key \in DOMAIN data THEN data[f.key] ELSE Str("")) = f.value

\* the versions resolve_work gives sync to remove when source and target
\* hold the same versions and keep_items is False: all but the max_items
\* greatest names
to_remove(versions, max_items) ==
    { v \in versions :
        Cardinality({ w \in versions : LexLess(v, w) }) >= max_items }

\* the calls of remove_version in the sync of one catalog
remove_calls(tree, max_items) ==
    UNION { { <<p, v>> : v \in to_remove(DOMAIN tree[p].versions, max_items) } :
            p \in DOMAIN tree }

RECURSIVE dry_run_sync(_, _, _, _, _)
\* DryRunMirrorWriter over the catalogs of the index: remove_version notes
\* (tcontent_id, pedigree) for the versions that pass the filters
dry_run_sync(cids, cat, max_items, filters, removed) ==
    IF cids = <<>> THEN removed
    ELSE dry_run_sync(Tail(cids), cat, max_items, filters,
             removed \cup
                 { <<Head(cids), ped>> :
                     ped \in { q \in remove_calls(cat[Head(cids)], max_items) :
                                 filter_item(filters, cat[Head(cids)], q) } })

RECURSIVE bare_writer_sync(_, _, _, _, _)
\* BareMirrorWriter over the catalogs of the index, one writer for all of
\* them: remove_version appends the pedigrees that pass the filters to
\* removed_versions, which is set up in __init__ only, and insert_products
\* deletes every pedigree of the list from the catalog at hand
bare_writer_sync(cids, cat, max_items, filters, st) ==
    IF cids = <<>> THEN st
    ELSE bare_writer_sync(Tail(cids), cat, max_items, filters,
             [removed_versions |->
                  st.removed_versions \cup
                      { q \in remove_calls(cat[Head(cids)], max_items) :
                          filter_item(filters, cat[Head(cids)], q) },
              cat |-> Put(st.cat, Head(cids),
                          products_condense(
                              InsertProductsTree(
                                  cat[Head(cids)], <<>>,
                                  SeqOfSet(st.removed_versions \cup
                                      { q \in remove_calls(cat[Head(cids)],
                                                           max_items) :
                                          filter_item(filters, cat[Head(cids)], q) })),
                              STICKY_BARE))])

\* the order in which the index lists the content ids
ContentIds == <<"c1", "c2">>

IndexOrder(cat) == SelectSeq(ContentIds, LAMBDA c : c \in DOMAIN cat)

\* main_clean_md with --dry-run
CleanMdDry ==
    /\ ~cm_dry.ran
    /\ cm_dry' = [ran |-> TRUE,
                  removed |-> dry_run_sync(IndexOrder(cm_args.cat), cm_args.cat,
                                           cm_args.max_items, cm_args.filters, {}),
                  cat |-> EmptyMap]
    /\ UNCHANGED <<cm_args, cm_real>>

\* main_clean_md without --dry-run, on the same mirror
CleanMdReal ==
    /\ ~cm_real.ran
    /\ cm_real' = [ran |-> TRUE,
                   removed |-> bare_writer_sync(
                                   IndexOrder(cm_args.cat), cm_args.cat,
                                   cm_args.max_items, cm_args.filters,
                                   [removed_versions |-> {}, cat |-> EmptyMap]
                               ).removed_versions,
                   cat |-> bare_writer_sync(
                               IndexOrder(cm_args.cat), cm_args.cat,
                               cm_args.max_items, cm_args.filters,
                               [removed_versions |-> {}, cat |-> EmptyMap]).cat]
    /\ UNCHANGED <<cm_args, cm_dry>>

\* a version of one architecture with one item
CleanVersion(arch) ==
    [fields |-> [arch |-> Str(arch)],
     items  |-> [i \in {"i1"} |-> [ftype |-> Str("squashfs"), path |-> Str("f1")]]]

\* the catalogs of a mirror: product p1 with one or two versions
CleanCatalogs ==
    { [p \in {"p1"} |-> [fields |-> EmptyMap, versions |-> vs]] :
        vs \in UNION { [V -> {CleanVersion("amd64"), CleanVersion("arm64")}] :
                         V \in {{V1}, {V2}, {V1, V2}} } }

\* the values of --max
MaxItems == 2

CleanInit ==
    /\ cm_args \in
          { [cat |-> c, max_items |-> m, filters |-> f] :
              c \in { [x \in {"c1"} |-> a] : a \in CleanCatalogs }
                       \cup { [x \in {"c1", "c2"} |-> IF x = "c1" THEN a ELSE b] :
                                a \in CleanCatalogs, b \in CleanCatalogs },
              m \in 1..MaxItems,
              f \in {{}, {[key |-> "arch", value |-> Str("amd64")]}} }
    /\ cm_dry = NotRun
    /\ cm_real = NotRun
    /\ SyncQuiet /\ PatchQuiet /\ DiffQuiet /\ OrphanQuiet /\ MaintQuiet
    /\ NetQuiet /\ FileQuiet /\ CopyQuiet

CleanNext ==
    \/ CleanMdDry
          /\ UNCHANGED <<syncVars, patchVars, diffVars, orphanVars, maintVars,
                         netVars, fileVars, copyVars>>
    \/ CleanMdReal
          /\ UNCHANGED <<syncVars, patchVars, diffVars, orphanVars, maintVars,
                         netVars, fileVars, copyVars>>

SpecClean == CleanInit /\ [][CleanNext]_vars

\* C1 (as claimed): condensing changes no flattened read: at every pedigree
\* of the tree handed to products_condense, the persisted (condensed) tree
\* flattens to the same field set.
C1_CondenseFlattenRoundTrip ==
    \A ped \in Pedigrees(precondense) :
        products_exdata(tfile, ped) = products_exdata(precondense, ped)

\* C2 (as claimed): when copy_items aborts the run on a hash mismatch, no file
\* exists at the destination path of the failing item under the target root.
C2_HashMismatchLeavesNoFile ==
    (prun.status = "aborted" /\ prun.err = "hash")
        => prun.fail \notin DOMAIN tdata

\* C3 (as claimed): a patch run that aborts on a hash mismatch has written no
\* catalog file of the target: every catalog is as it was when the run began.
C3_NoCatalogWrittenOnHashFailure ==
    (prun.status = "aborted" /\ prun.err = "hash")
        => (prun.wrote = {} /\ tcat = prun.before.cat)

\* C8: from its start to its end a patch run with --dry-run leaves every
\* catalog file, the index and every data file of the target root as they were.
C8_DryRunWritesNothing ==
    (prun.dry /\ prun.status # "idle")
        => /\ tcat = prun.before.cat
           /\ tidx = prun.before.idx
           /\ tdata = prun.before.data

\* a dry run ended after patching a version into a product, promoting a
\* product and flagging the index for regeneration, all of it in memory only
C8_Witness ==
    /\ prun.dry /\ prun.status = "done" /\ prun.wps /\ prun.regen
    /\ \E n \in DOMAIN diff : diff[n].versions # <<>> /\ diff[n].versions[1][2] # {}
    /\ \E n \in DOMAIN diff : diff[n].haslabels /\ diff[n].key = "p2"
    /\ <<TGT_LABEL, "p2">> \notin DOMAIN prun.before.cat["s1"]

\* C9 (as claimed): when a dry run is followed by a real run of the same diff
\* with the same streams on the state the dry run left, and the real run aborts
\* (missing source, missing stream, hash mismatch), the dry run aborted too.
C9_DryRunAbortsWhenRealRunAborts ==
    (/\ Len(plog) = 2
     /\ plog[1][1] /\ ~plog[2][1]
     /\ plog[1][2] = plog[2][2]
     /\ plog[2][3] \in {"nosource", "nostream", "hash"})
        => plog[1][3] # "none"

\* the version ids listed under 'versions' of the entry of the document for
\* product name of stream s
DocVersions(s, name) ==
    UNION { { diff[n].versions[i][1] : i \in DOMAIN diff[n].versions } :
              n \in { m \in DOMAIN diff : diff[m].stream = s /\ diff[m].key = name } }

\* v is the greatest of the versions that mine holds and theirs lacks, and
\* theirs holds nothing greater than v
LatestMissing(v, mine, theirs) ==
    /\ v \in mine \ theirs
    /\ \A w \in (mine \ theirs) \cup theirs : ~LexLess(v, w)

\* C10: after a diff with latest_only, for every product present on both
\* sides the document lists at most one version for it; a listed version is the
\* lexically greatest version that one side holds and the other lacks, and
\* the other side holds no greater version; the greatest version missing
\* from the target is listed whenever the target holds no greater one.
C10_LatestOnly ==
    (dres.status = "ok" /\ dres.latest_only) =>
        \A s \in DOMAIN scat \cap DOMAIN tcat, name \in {"p1", "p2"} :
            (<<SRC_LABEL, name>> \in DOMAIN scat[s]
                /\ <<TGT_LABEL, name>> \in DOMAIN tcat[s]) =>
            LET A == DOMAIN scat[s][<<SRC_LABEL, name>>].versions
                B == DOMAIN tcat[s][<<TGT_LABEL, name>>].versions
            IN  /\ Cardinality(DocVersions(s, name)) <= 1
                /\ \A n \in DOMAIN diff :
                      (diff[n].stream = s /\ diff[n].key = name)
                          => Len(diff[n].versions) <= 1
                /\ \A v \in DocVersions(s, name) :
                      LatestMissing(v, A, B) \/ LatestMissing(v, B, A)
                /\ \A v \in A : LatestMissing(v, A, B) => v \in DocVersions(s, name)

\* a diff with latest_only of p1 whose source holds "1", "10" and "2" and
\* whose target holds "1" only: of the two missing versions "2" is listed
C10_Witness ==
    /\ dres.status = "ok" /\ dres.latest_only
    /\ <<SRC_LABEL, "p1">> \in DOMAIN scat["s1"]
    /\ <<TGT_LABEL, "p1">> \in DOMAIN tcat["s1"]
    /\ DOMAIN scat["s1"][<<SRC_LABEL, "p1">>].versions = {V1, V10, V2}
    /\ DOMAIN tcat["s1"][<<TGT_LABEL, "p1">>].versions = {V1}
    /\ DocVersions("s1", "p1") = {V2}

\* a catalog modulo label: every (stream, product name, version, item) with
\* the fields that flatten at it, 'label' left out
ModuloLabel(cat) ==
    { <<s, ped[1][2], ped[2], ped[3],
        Drop(products_exdata(cat[s], ped), {"label"})>> :
          <<s, ped>> \in UNION { {s2} \X Pedigrees(cat[s2]) : s2 \in DOMAIN cat } }

\* the run in progress is a real patch with the source, of the document
\* that diff --promote made, on a release root that held no product
PromotedFromScratch ==
    /\ dres.status = "ok" /\ dres.promote
    /\ ~dres.new_versions_only /\ ~dres.latest_only
    /\ prun.status = "done" /\ ~prun.dry /\ prun.src
    /\ \A s \in DOMAIN prun.before.cat : prun.before.cat[s] = EmptyProducts

\* C5: when the patch of an empty release catalog B with the document
\* Diff(A, B, promote) and A as the source completes, B' holds the pedigrees of
\* A (product ids modulo label) with the same flattened fields (modulo label).
C5_DiffPatchInverse ==
    PromotedFromScratch => ModuloLabel(tcat) = ModuloLabel(scat)

\* a promotion from scratch of two streams, p1 with three versions and p2
C5_Witness ==
    /\ PromotedFromScratch
    /\ DOMAIN scat["s1"] = {<<SRC_LABEL, "p1">>, <<SRC_LABEL, "p2">>}
    /\ DOMAIN scat["s1"][<<SRC_LABEL, "p1">>].versions = DiffVersions
    /\ scat["s2"] # EmptyProducts
    /\ ModuloLabel(tcat) # {}

\* C4 (as claimed): no file that reap-orphans has just deleted is the path
\* of an item of a catalog, whatever catalog updates came between the
\* find-orphans run that wrote the ledger and the reap.
C4_ReapSparesRereferenced ==
    olast.op = "reap" =>
        (olast.files \ DOMAIN tdata) \cap get_nonorphan_set(tcat) = {}

\* C6: a step of find-orphans or reap-orphans leaves the timestamp of every
\* path that stays in the ledger as it was, and a path that enters the ledger
\* gets the current time.
C6_FirstSeenMonotonic ==
    [][ \A o \in DOMAIN ledger'.entries :
          IF ledger.exists /\ o \in DOMAIN ledger.entries
          THEN ledger'.entries[o] = ledger.entries[o]
          ELSE ledger'.entries[o] = timestamp(clock) ]_vars

\* a ledger written by a later run that holds a path first seen earlier with
\* its old timestamp next to a path first seen now
C6_Witness ==
    /\ ledger.exists
    /\ \E o1, o2 \in DOMAIN ledger.entries :
          /\ read_timestamp(ledger.entries[o1]) < clock
          /\ read_timestamp(ledger.entries[o2]) = clock

\* C7: a reap without --now deletes only ledger entries whose first-seen
\* time plus the grace period is strictly before now; files outside the
\* ledger and younger entries stay on disk, and the entries that were not
\* reaped stay in the ledger with their timestamps.
C7_ReapThreshold ==
    (olast.op = "reap" /\ ~olast.force) =>
        LET due == { o \in DOMAIN olast.known :
                       read_timestamp(olast.known[o]) + read_timedelta(olast.older)
                           < olast.now }
        IN  /\ olast.files \ DOMAIN tdata \subseteq due
            /\ \A f \in olast.files \ due : f \in DOMAIN tdata
            /\ \A o \in DOMAIN olast.known \ olast.reaped :
                  o \in DOMAIN ledger.entries /\ ledger.entries[o] = olast.known[o]
            /\ olast.reaped \subseteq due

\* a reap with --older 2s at the instant an entry is exactly 2 seconds old:
\* that entry and its file stay, an older entry was reaped and a file
\* outside the ledger is untouched
C7_Witness ==
    /\ olast.op = "reap" /\ ~olast.force /\ ~olast.dry
    /\ olast.older = << <<2, "s">> >>
    /\ olast.reaped # {}
    /\ \E o \in DOMAIN ledger.entries :
          /\ read_timestamp(ledger.entries[o]) + 2 = olast.now
          /\ o \in DOMAIN tdata
    /\ \E f \in DOMAIN tdata : f \notin DOMAIN olast.known

\* the products of stream s that both roots hold, by name without label
OnBothSides(s) ==
    { name \in {"p1", "p2"} :
        /\ <<SRC_LABEL, name>> \in DOMAIN scat[s]
        /\ <<TGT_LABEL, name>> \in DOMAIN tcat[s] }

\* some product on both sides holds a version id on both sides whose
\* payloads differ
Republished ==
    \E s \in DOMAIN scat \cap DOMAIN tcat : \E name \in OnBothSides(s) :
        \E v \in DOMAIN scat[s][<<SRC_LABEL, name>>].versions
                 \cap DOMAIN tcat[s][<<TGT_LABEL, name>>].versions :
            scat[s][<<SRC_LABEL, name>>].versions[v]
                # tcat[s][<<TGT_LABEL, name>>].versions[v]

\* C11: when a product on both sides holds a version id on both sides with
\* different payloads, a diff run ends with the assertion error and produces
\* no document, whichever of promote, new_versions_only and latest_only is set.
C11_RepublishedVersionAborts ==
    (dres.status # "none" /\ Republished)
        => (dres.status = "aborted" /\ diff = <<>>)

\* a diff with new_versions_only and latest_only that met a republished
\* version "1" next to versions only one side holds
C11_Witness ==
    /\ dres.status = "aborted" /\ dres.new_versions_only /\ dres.latest_only
    /\ Republished
    /\ V2 \in DOMAIN scat["s1"][<<SRC_LABEL, "p1">>].versions
    /\ V2 \notin DOMAIN tcat["s1"][<<TGT_LABEL, "p1">>].versions

\* the entries of the document for product name of stream s
DocEntries(s, name) ==
    { n \in DOMAIN diff : diff[n].stream = s /\ diff[n].key = name }

\* the scalar keys, other than 'label', on which two products differ
DifferingKeys(sp, tp) ==
    { k \in (DOMAIN sp.fields \cup DOMAIN tp.fields) \ {"label"} :
        field_of(sp, k) # field_of(tp, k) }

\* C12: after a diff without options, for every product on both sides the
\* 'versions' of its entry are exactly the version ids one side only holds,
\* each tagged with the label of that side alone; each scalar key that differs
\* is recorded as {source label: source value, target label: target value};
\* and a product with the same versions and scalars has no entry.
C12_PlainDiffIsSymmetricDifference ==
    (/\ dres.status = "ok"
     /\ ~dres.promote /\ ~dres.new_versions_only /\ ~dres.latest_only) =>
        \A s \in DOMAIN scat \cap DOMAIN tcat : \A name \in OnBothSides(s) :
            LET sp == scat[s][<<SRC_LABEL, name>>]
                tp == tcat[s][<<TGT_LABEL, name>>]
                A  == DOMAIN sp.versions
                B  == DOMAIN tp.versions
                K  == DifferingKeys(sp, tp)
            IN  /\ Cardinality(DocEntries(s, name)) <= 1
                /\ (A = B /\ K = {}) <=> (DocEntries(s, name) = {})
                /\ \A n \in DocEntries(s, name) :
                      /\ ~diff[n].haslabels
                      /\ { diff[n].versions[i] : i \in DOMAIN diff[n].versions }
                            = { <<v, {SRC_LABEL}>> : v \in A \ B }
                                \cup { <<v, {TGT_LABEL}>> : v \in B \ A }
                      /\ Len(diff[n].versions) = Cardinality((A \ B) \cup (B \ A))
                      /\ DOMAIN diff[n].fields = K
                      /\ \A k \in K :
                            /\ diff[n].fields[k][SRC_LABEL] = field_of(sp, k)
                            /\ diff[n].fields[k][TGT_LABEL] = field_of(tp, k)

\* a plain diff of p1 with versions only the source holds, versions only the
\* target holds and a key only the target holds, next to an identical p2
C12_Witness ==
    /\ dres.status = "ok"
    /\ ~dres.promote /\ ~dres.new_versions_only /\ ~dres.latest_only
    /\ OnBothSides("s1") = {"p1", "p2"}
    /\ DocEntries("s1", "p2") = {}
    /\ \E n \in DocEntries("s1", "p1") :
          /\ \E i, j \in DOMAIN diff[n].versions :
                /\ diff[n].versions[i][2] = {SRC_LABEL}
                /\ diff[n].versions[j][2] = {TGT_LABEL}
          /\ "os" \in DOMAIN diff[n].fields
          /\ diff[n].fields["os"][SRC_LABEL] = None
          /\ diff[n].fields["os"][TGT_LABEL] = Str("debian")

\* the labels list of version v in the 'versions' of diff entry e
LabelsOf(e, v) ==
    UNION { e.versions[i][2] : i \in { j \in DOMAIN e.versions : e.versions[j][1] = v } }

\* what the rules make of version v of a product: old are the versions the
\* target product held, src those of its source product, new those it holds
PatchRule(e, v, old, src, new) ==
    IF v \in { e.versions[i][1] : i \in DOMAIN e.versions }
    THEN IF v \in DOMAIN old
         THEN IF TGT_LABEL \in LabelsOf(e, v)
              THEN v \in DOMAIN new /\ new[v] = old[v]
              ELSE v \notin DOMAIN new
         ELSE IF TGT_LABEL \in LabelsOf(e, v)
              THEN v \in DOMAIN new /\ v \in DOMAIN src /\ new[v] = src[v]
              ELSE v \notin DOMAIN new
    ELSE /\ v \in DOMAIN old <=> v \in DOMAIN new
         /\ v \in DOMAIN old => new[v] = old[v]

\* C13: when a real patch run gets past a diff entry that does not delete
\* the product, every product of the target that the entry matches holds
\* afterwards: no version named with labels lacking the target label, every
\* version it held that is named with the target label or not named as it
\* was, and every version it lacked that is named with the target label with
\* the payload of the source product.
C13_PatchVersionRules ==
    [][ (/\ prun.status = "running" /\ ~prun.dry
         /\ prun'.status # "aborted"
         /\ ~(diff[prun.pos].haslabels /\ TGT_LABEL \notin diff[prun.pos].labels)) =>
          \A tpid \in DOMAIN tcat[diff[prun.pos].stream] :
             Matches(diff[prun.pos].key, get_product_name_without_label(tpid, TGT_LABEL)) =>
                /\ tpid \in DOMAIN tcat'[diff[prun.pos].stream]
                /\ \A v \in {V1, V10, V2} :
                      PatchRule(diff[prun.pos], v,
                          tcat[diff[prun.pos].stream][tpid].versions,
                          IF prun.src /\ replace_label(tpid, TGT_LABEL, SRC_LABEL)
                                \in DOMAIN scat[diff[prun.pos].stream]
                          THEN scat[diff[prun.pos].stream][
                                   replace_label(tpid, TGT_LABEL, SRC_LABEL)].versions
                          ELSE EmptyVersions,
                          tcat'[diff[prun.pos].stream][tpid].versions)
      ]_vars

\* a real run that completed the entry naming "1" and "2" for the target
\* label on a p1 that held "1": "1" is as it was and "2" came from the source
C13_Witness ==
    /\ prun.status = "done" /\ ~prun.dry /\ prun.src
    /\ \E n \in DOMAIN diff :
          diff[n].versions
              = << <<V1, {TGT_LABEL, SRC_LABEL}>>, <<V2, {TGT_LABEL, SRC_LABEL}>> >>
    /\ <<TGT_LABEL, "p1">> \in DOMAIN prun.before.cat["s1"]
    /\ <<TGT_LABEL, "p1">> \in DOMAIN tcat["s1"]
    /\ DOMAIN prun.before.cat["s1"][<<TGT_LABEL, "p1">>].versions = {V1}
    /\ DOMAIN tcat["s1"][<<TGT_LABEL, "p1">>].versions = {V1, V2}
    /\ tcat["s1"][<<TGT_LABEL, "p1">>].versions[V2]
          = scat["s1"][<<SRC_LABEL, "p1">>].versions[V2]

\* a diff entry that can add nothing: its 'labels', if any, lack the target
\* label and so do the labels of every version it names
AddsNothing(e) ==
    /\ ~(e.haslabels /\ TGT_LABEL \in e.labels)
    /\ \A i \in DOMAIN e.versions : TGT_LABEL \notin e.versions[i][2]

\* C14 (as claimed): a patch run given only the target root ends without
\* error when no entry of the diff adds a version or a product, that is when
\* every entry only deletes a product, deletes versions or updates scalars.
C14_SourceOptionalUnlessAdding ==
    (/\ prun.status \in {"done", "aborted"}
     /\ ~prun.src
     /\ \A n \in DOMAIN diff : AddsNothing(diff[n]))
        => prun.status = "done"

\* the (stream, pedigree) triples of the items of the versions that the
\* catalogs hold now and did not hold when the run began
AddedItems ==
    UNION { { <<s, ped>> : ped \in
                { q \in Pedigrees(tcat[s]) :
                    \/ q[1] \notin DOMAIN prun.before.cat[s]
                    \/ q[2] \notin DOMAIN prun.before.cat[s][q[1]].versions } } :
            s \in DOMAIN tcat }

\* C15 (as claimed): after a real patch run that completed, the file at the
\* path of every item of every version or product the run added is under the
\* target root and its sha256 is the one the item declares, also when the
\* file was there before the run.
C15_AddedItemsVerified ==
    (prun.status = "done" /\ ~prun.dry) =>
        \A a \in AddedItems :
            LET item == tcat[a[1]][a[2][1]].versions[a[2][2]].items[a[2][3]]
            IN  /\ item.path[2] \in DOMAIN tdata
                /\ tdata[item.path[2]] = item.sha256[2]

C17_CondenseIdempotent ==
    \A sticky \in {STICKY_BARE, STICKY_BUILD} :
        products_condense(products_condense(precondense, sticky), sticky)
            = products_condense(precondense, sticky)

\* C18: a writer's products_condense moves no key of its sticky list: every
\* item and version that held the key before holds it afterwards with the
\* same value, and a product or version holds the key afterwards only if it
\* held it before.
C18_StickyStays ==
    [][ (writes' # writes) =>
          \A f \in (IF spc = "loaded" THEN STICKY_BARE ELSE STICKY_BUILD) :
          \A p \in DOMAIN precondense' :
             /\ f \in DOMAIN tfile'[p].fields => f \in DOMAIN precondense'[p].fields
             /\ \A v \in DOMAIN precondense'[p].versions :
                   /\ f \in DOMAIN tfile'[p].versions[v].fields
                         <=> f \in DOMAIN precondense'[p].versions[v].fields
                   /\ \A i \in DOMAIN precondense'[p].versions[v].items :
                         /\ f \in DOMAIN tfile'[p].versions[v].items[i]
                               <=> f \in DOMAIN precondense'[p].versions[v].items[i]
                         /\ f \in DOMAIN precondense'[p].versions[v].items[i] =>
                               tfile'[p].versions[v].items[i][f]
                                   = precondense'[p].versions[v].items[i][f]
      ]_vars

\* BareMirrorWriter wrote p1 with two versions whose items all hold
\* kpackage 'linux' and arch 'amd64': arch is at the product, kpackage is
\* still in every item
C18_Witness ==
    /\ "p1" \in DOMAIN tfile
    /\ tproducts = tfile
    /\ DOMAIN tfile["p1"].versions = {"v1", "v2"}
    /\ "arch" \in DOMAIN tfile["p1"].fields
    /\ "kpackage" \notin DOMAIN tfile["p1"].fields
    /\ \A v \in {"v1", "v2"} :
          /\ "kpackage" \notin DOMAIN tfile["p1"].versions[v].fields
          /\ \A i \in DOMAIN tfile["p1"].versions[v].items :
                /\ "kpackage" \in DOMAIN tfile["p1"].versions[v].items[i]
                /\ tfile["p1"].versions[v].items[i]["kpackage"] = Str("linux")

IsBareInsertItem == spc = "loaded" /\ spc' = "loaded" /\ inserted' # inserted

\* C20 (as claimed): in every sync sink insert_item only appends to the
\* staging list and leaves the target product tree alone, and
\* insert_products persists the tree with the staged Sets and the recorded
\* version removals applied, pruned and condensed once.
C20_InsertIsStagedOnly ==
    [][ /\ IsBareInsertItem =>
              /\ Len(inserted') = Len(inserted) + 1
              /\ SubSeq(inserted', 1, Len(inserted)) = inserted
              /\ UNCHANGED <<tproducts, tfile>>
        /\ (spc = "cloud" /\ spc' = "cloud") => UNCHANGED <<content_t, tfile>>
        /\ (spc = "loaded" /\ spc' = "idle") =>
              tfile' = products_condense(
                           products_prune(InsertProductsTree(
                               tproducts, inserted, removed_versions)),
                           STICKY_BARE)
      ]_vars

\* C21 (as claimed): every command that changes the products of a catalog
\* (sync insert_products, patch, remove-version) writes the catalog with
\* 'updated' set to the time of the change.
C21_UpdatedRewritten ==
    [][ \A s \in DOMAIN tcat :
           tcat'[s] # tcat[s] => tupdated'[s] = timestamp(clock) ]_vars

\* C22 (as claimed): load_products of a sync sink never ends the run: when
\* the target catalog is missing or corrupt the run goes on with an empty
\* catalog.
C22_LoadTargetNeverAborts ==
    [][ (spc \in {"idle", "raised"} /\ spc' # spc /\ writes' = writes
            /\ tfstate \in {"missing", "corrupt"})
          => /\ spc' \in {"loaded", "cloud"}
             /\ spc' = "loaded" => tproducts' = EmptyProducts
             /\ spc' = "cloud" => content_t' = EmptyProducts ]_vars

\* the results in the order the work units were put on in_queue
SubmissionOrder == [n \in DOMAIN Places |-> WorkerResult(Places[n], nmined[Places[n]])]

\* C23 (as claimed): the tree and the path map get_products_data returns do
\* not depend on the order in which the threads' results reach out_queue:
\* they are what the results give in the order of submission.
C23_MergeIsDeterministic ==
    nres.status = "returned" =>
        /\ nres.products = get_products_data(SubmissionOrder).products
        /\ nres.pathmap = get_products_data(SubmissionOrder).pathmap

\* the versions of the bootloader product
BootVersions(cat) ==
    IF BOOT_STREAM \in DOMAIN cat /\ BOOT_PRODUCT \in DOMAIN cat[BOOT_STREAM]
    THEN DOMAIN cat[BOOT_STREAM][BOOT_PRODUCT].versions
    ELSE {}

\* C24 (as claimed): every version id an import creates for a product is
\* lexically greater than every version id the product already holds.
C24_ImportedVersionIsGreatest ==
    [][ \A v \in BootVersions(tcat') \ BootVersions(tcat) :
           \A w \in BootVersions(tcat) : LexLess(w, v) ]_vars

\* the path has 'xen/', 'cdrom/' or 'gtk/' somewhere in it
HasOtherFlavor(path) ==
    \E i \in DOMAIN path, other \in other_iflavor_toks :
        /\ i + Len(other) <= Len(path)
        /\ \A k \in 1..Len(other) : path[i + k - 1] = other[k]
        /\ path[i + Len(other)] = "/"

\* the path ends as a kernel, initrd or dtb file does
HasFilePattern(path) ==
    \E n \in DOMAIN FTYPE_MATCHES : \E pat \in FTYPE_MATCHES[n][2] :
        /\ Len(pat) <= Len(path)
        /\ \A k \in 1..Len(pat) :
              pat[k] # ANY => path[Len(path) - Len(pat) + k] = pat[k]

\* the known releases R whose 'R-' the path starts with
LeadingReleases(path) ==
    { r \in DOMAIN REL2VER :
        /\ Len(ReleaseName[r]) < Len(path)
        /\ \A k \in 1..Len(ReleaseName[r]) : path[k] = ReleaseName[r][k]
        /\ path[Len(ReleaseName[r]) + 1] = "-" }

\* C25: get_file_item_data returns None exactly when the path contains
\* 'xen/', 'cdrom/' or 'gtk/' or matches no kernel/initrd/dtb file pattern;
\* otherwise the record's kernel-release is R when the path starts with 'R-'
\* for a known release R, and the release argument in every other case.
C25_FileItemData ==
    gf_ret.returned =>
        /\ gf_ret.none <=>
              (HasOtherFlavor(gf_args.path) \/ ~HasFilePattern(gf_args.path))
        /\ ~gf_ret.none =>
              /\ \A r \in LeadingReleases(gf_args.path) :
                    gf_ret.data.kernel_release = ReleaseName[r]
              /\ LeadingReleases(gf_args.path) = {} =>
                    gf_ret.data.kernel_release = gf_args.release

\* a path under xenial-generic asked for trusty yields a xenial kernel
C25_Witness ==
    /\ gf_ret.returned /\ ~gf_ret.none
    /\ gf_args.path =
          Join(<<<<"x", "e", "n", "i", "a", "l", "-", "g", "e", "n", "e", "r", "i", "c">>,
                 <<"l", "i", "n", "u", "x">>>>)
    /\ gf_args.release = ReleaseName["trusty"]
    /\ gf_ret.data.kernel_release = ReleaseName["xenial"]

\* C26: after a patch run that is no dry run, ran to its end and wrote a
\* catalog file, index.json lists for every catalog file exactly the product
\* ids of that file.
C26_IndexFollowsPatch ==
    (prun.status = "done" /\ ~prun.dry /\ prun.wrote # {}) =>
        \A s \in DOMAIN tcat : s \in DOMAIN tidx /\ tidx[s] = DOMAIN tcat[s]

\* C27: when copy_fh has returned or raised, no temporary file it created is
\* left in the destination directory; the file at the final path was created
\* or replaced only if the digest of the bytes read is the expected one; and
\* when the digest differs, ValueError was raised and the final path is as it
\* was before the call.
C27_VerifyThenRename ==
    [][ (cp_ret.status = "none" /\ cp_ret'.status # "none") =>
           /\ cp_dir'.temps \subseteq cp_dir.temps
           /\ (cp_ret'.renamed \/ cp_dir'.final # cp_dir.final) =>
                 (cp_args.cksums.kind = "sha256" =>
                     cp_args.cksums.sum = Sum(cp_ret'.read) % HashMod)
           /\ (/\ cp_ret'.opened
               /\ cp_args.cksums.kind = "sha256"
               /\ cp_args.cksums.sum # Sum(cp_ret'.read) % HashMod) =>
                 (cp_ret'.status = "ValueError" /\ cp_dir'.final = cp_dir.final)
      ]_vars

\* a read that failed part way: the digest of what was read is not the
\* expected one, ValueError was raised and the old file is in place
C27_Witness ==
    /\ cp_ret.status = "ValueError"
    /\ cp_ret.read # <<>> /\ cp_ret.read # cp_args.src
    /\ cp_dir = [final |-> [exists |-> TRUE, bytes |-> <<2, 2, 2>>], temps |-> {}]

\* C28: when a patch run that is no dry run has completed and the same diff
\* is applied again, with the source argument of the first run or with none,
\* the second run completes without error and the target catalog is what
\* it was after the first run.
C28_PatchIsIdempotent ==
    (/\ Len(plog) = 2
     /\ plog[1][1] = FALSE /\ plog[1][3] = "none"
     /\ plog[2][1] = FALSE /\ plog[2][2] \in {plog[1][2], FALSE}) =>
        /\ plog[2][3] = "none"
        /\ tcat = prun.before.cat

\* the pedigrees at which the run staged an item
StagedPeds == { inserted[n][1] : n \in DOMAIN inserted }

\* C29: in a sync run whose writer records no removals (InsertBareMirrorWriter,
\* ReleasePromoteMirror), every (product, version) of the catalog the run
\* loaded is in the catalog insert_products persists, and every item pedigree
\* of the loaded catalog is in it with the same flattened fields unless the
\* run inserted an item at that pedigree.
C29_InsertNeverRemoves ==
    [][ (spc = "loaded" /\ spc' = "idle" /\ removed_versions = <<>>) =>
          /\ \A p \in DOMAIN tproducts :
                /\ p \in DOMAIN tfile'
                /\ DOMAIN tproducts[p].versions \subseteq DOMAIN tfile'[p].versions
          /\ \A ped \in Pedigrees(tproducts) :
                /\ ped \in Pedigrees(tfile')
                /\ ped \notin StagedPeds =>
                      products_exdata(tfile', ped) = products_exdata(tproducts, ped)
      ]_vars

\* the versions of the mirror that are not in the catalogs the real run
\* persisted
DeletedVersions ==
    UNION { UNION { { <<c, <<p, v>>>> :
                        v \in { w \in DOMAIN cm_args.cat[c][p].versions :
                                  \/ p \notin DOMAIN cm_real.cat[c]
                                  \/ w \notin DOMAIN cm_real.cat[c][p].versions } } :
                    p \in DOMAIN cm_args.cat[c] } :
            c \in DOMAIN cm_args.cat }

\* C30: clean-md records a version for removal only if it passes the
\* filters, and on the same mirror with the same --max and filters the
\* (content id, pedigree) pairs the dry run reports are the versions the
\* real run deletes from the persisted catalogs.
C30_DryRunAgreesWithRealRun ==
    /\ cm_dry.ran =>
          \A r \in cm_dry.removed :
              filter_item(cm_args.filters, cm_args.cat[r[1]], r[2])
    /\ (cm_dry.ran /\ cm_real.ran) => cm_dry.removed = DeletedVersions

====
